---- MODULE Spec2Model ----
(***************************************************************************)
(* Schema tree, path resolution and type derivation of the data source     *)
(* schema package (datasource/schema), with the nested attribute object.    *)
(*                                                                         *)
(* Go values are modelled as records:                                      *)
(*   attr.Type        [kind |-> "Bool" | "String"],                        *)
(*                    [kind |-> "List" | "Set" | "Map", elem |-> T],       *)
(*                    [kind |-> "Object", attrTypes |-> name :> T],        *)
(*                    [kind |-> "CustomObject", name, attrTypes]           *)
(*   Attribute        [kind |-> "Leaf", type, Required, Optional, Computed]*)
(*                    [kind |-> "Nested", mode, NestedObject, ...]         *)
(*   Block            [kind |-> "Block", mode, Attributes, Blocks]         *)
(*   Schema           [Attributes |-> name :> Attribute,                   *)
(*                     Blocks |-> name :> Block]                           *)
(*   path step        [kind, s, n]                                         *)
(* A value of Go type interface{} is a node [k |-> <dynamic kind>, v].     *)
(***************************************************************************)
EXTENDS Integers, Sequences, FiniteSets, TLC

VARIABLES
    schema,            \* the Schema the operations are called on
    path,              \* the *tftypes.AttributePath handed to the walks
    attrResult,        \* what Schema.AttributeAtTerraformPath returned
    typeResult,        \* what Schema.TypeAtTerraformPath returned
    stepResult,        \* what Schema.ApplyTerraform5AttributePathStep returned
    schemaTypeResult,  \* what the latest Schema.Type() returned
    schemaTypePrev,    \* what the Schema.Type() call before it returned
    obj,               \* the receiver NestedAttributeObject o
    other,             \* the argument of o.Equal(other)
    order,             \* the order in which range visits o.Attributes
    objStep,           \* the step handed to o.ApplyTerraform5AttributePathStep
    objStepResult,     \* what o.ApplyTerraform5AttributePathStep returned
    equalResult,       \* what o.Equal(other) returned
    objTypeResult,     \* what the latest o.Type() returned
    objTypePrev,       \* what the o.Type() call before it returned
    vattr,             \* the attribute a handed to AttributeValidate
    vconfig,           \* req.Config: the configuration, an object value
    vprior,            \* resp.Diagnostics when AttributeValidate is called
    viter,             \* the orders in which range visits the maps of the pass
    vresp,             \* resp when AttributeValidate has returned
    bvalue,            \* the BoolValue v the conversions start from
    bother,            \* the candidate attr.Value handed to v.Equal
    bwire,             \* a tftypes.Value handed to BoolType.ValueFromTerraform
    btf,               \* what v.ToTerraformValue returned
    bfrom,             \* what ValueFromTerraform returned for bwire
    bback,             \* what ValueFromTerraform returned for the value of btf
    bequal             \* what v.Equal(candidate) returned

vars == <<schema, path, attrResult, typeResult, stepResult, schemaTypeResult,
          schemaTypePrev, obj, other, order, objStep, objStepResult, equalResult,
          objTypeResult, objTypePrev, vattr, vconfig, vprior, viter, vresp,
          bvalue, bother, bwire, btf, bfrom, bback, bequal>>

schemaVars == <<schema, path, attrResult, typeResult, stepResult, schemaTypeResult,
                schemaTypePrev>>
objVars == <<obj, other, order, objStep, objStepResult, equalResult,
             objTypeResult, objTypePrev>>
valVars == <<vattr, vconfig, vprior, viter, vresp>>
boolVars == <<bvalue, bother, bwire, btf, bfrom, bback, bequal>>

(***************************************************************************)
(* Bounds of the model.                                                    *)
(***************************************************************************)
MaxPathLen == 3
MaxIndex == 0
MaxElems == 2

Names == {"a", "b"}

(***************************************************************************)
(* Go's nil, and a call that has not been made yet.                        *)
(***************************************************************************)
Nil == [k |-> "nil"]
NoErr == [e |-> "nil"]
Pending == [st |-> "pending"]
NilType == [kind |-> "nil"]

(***************************************************************************)
(* attr.Type                                                               *)
(***************************************************************************)
BoolType == [kind |-> "Bool"]
StringType == [kind |-> "String"]
ListType(e) == [kind |-> "List", elem |-> e]
SetType(e) == [kind |-> "Set", elem |-> e]
MapType(e) == [kind |-> "Map", elem |-> e]
ObjectType(at) == [kind |-> "Object", attrTypes |-> at]
CustomObjectType(nm, at) == [kind |-> "CustomObject", name |-> nm, attrTypes |-> at]

RECURSIVE TypeEqual(_, _)
TypeEqual(t1, t2) ==
    IF t1.kind # t2.kind THEN FALSE
    ELSE CASE t1.kind \in {"Bool", "String"} -> TRUE
           [] t1.kind \in {"List", "Set", "Map"} -> TypeEqual(t1.elem, t2.elem)
           [] t1.kind = "Object" ->
                /\ DOMAIN t1.attrTypes = DOMAIN t2.attrTypes
                /\ \A n \in DOMAIN t1.attrTypes :
                      TypeEqual(t1.attrTypes[n], t2.attrTypes[n])
           [] t1.kind = "CustomObject" ->
                /\ t1.name = t2.name
                /\ DOMAIN t1.attrTypes = DOMAIN t2.attrTypes
                /\ \A n \in DOMAIN t1.attrTypes :
                      TypeEqual(t1.attrTypes[n], t2.attrTypes[n])
           [] OTHER -> FALSE

(***************************************************************************)
(* tftypes.AttributePathStep                                               *)
(***************************************************************************)
AttributeName(nm) == [kind |-> "AttributeName", s |-> nm, n |-> 0]
ElementKeyInt(i) == [kind |-> "ElementKeyInt", s |-> "", n |-> i]
ElementKeyString(key) == [kind |-> "ElementKeyString", s |-> key, n |-> 0]
ElementKeyValue(id) == [kind |-> "ElementKeyValue", s |-> "", n |-> id]

Steps ==
    {AttributeName(nm) : nm \in Names}
    \cup {ElementKeyInt(i) : i \in 0..MaxIndex}
    \cup {ElementKeyString("a"), ElementKeyValue(0)}

Paths == UNION {[1..len -> Steps] : len \in 0..MaxPathLen}

(***************************************************************************)
(* Results of a step: (interface{}, error).                                 *)
(***************************************************************************)
Ok(node) == [node |-> node, err |-> NoErr]
Fail(msg, step) == [node |-> Nil, err |-> [e |-> msg, step |-> step]]

Node(kind, v) == [k |-> kind, v |-> v]

(***************************************************************************)
(* Attributes and blocks.                                                  *)
(***************************************************************************)
LeafAttribute(t, req, opt, comp) ==
    [kind |-> "Leaf", type |-> t,
     Required |-> req, Optional |-> opt, Computed |-> comp]

NestedAttribute(mode, o, req, opt, comp) ==
    [kind |-> "Nested", mode |-> mode, NestedObject |-> o,
     Required |-> req, Optional |-> opt, Computed |-> comp]

NestedObject(attrs, custom) == [Attributes |-> attrs, CustomType |-> custom]

BlockOf(mode, attrs, blocks) ==
    [kind |-> "Block", mode |-> mode, Attributes |-> attrs, Blocks |-> blocks]

Wrap(mode, t) ==
    CASE mode = "List" -> ListType(t)
      [] mode = "Set" -> SetType(t)
      [] mode = "Map" -> MapType(t)
      [] OTHER -> t

\* The sequences that visit every element of S exactly once: the orders in
\* which a Go range over a map with key set S can run.
Orders(S) ==
    {s \in [1..Cardinality(S) -> S] : \A i, j \in 1..Cardinality(S) : i # j => s[i] # s[j]}

SomeOrder(S) == CHOOSE s \in Orders(S) : TRUE

Put(f, key, val) == [x \in DOMAIN f \cup {key} |-> IF x = key THEN val ELSE f[x]]

EmptyMap == <<>>

RECURSIVE AttributeGetType(_)
RECURSIVE NestedAttributeObjectTypeLoop(_, _, _)

\* for name, attribute := range o.Attributes { attrTypes[name] = attribute.GetType() }
NestedAttributeObjectTypeLoop(attrs, ord, attrTypes) ==
    IF ord = <<>> THEN attrTypes
    ELSE NestedAttributeObjectTypeLoop(
             attrs, Tail(ord),
             Put(attrTypes, Head(ord), AttributeGetType(attrs[Head(ord)])))

NestedAttributeObjectType_IgnoresCustomType(o, ord) ==
    ObjectType(NestedAttributeObjectTypeLoop(o.Attributes, ord, EmptyMap))

NestedAttributeObjectType_LastWins(o, ord) ==
    IF o.CustomType # NilType THEN o.CustomType
    ELSE ObjectType([n \in DOMAIN o.Attributes |->
                        AttributeGetType(o.Attributes[ord[Len(ord)]])])

\* NestedAttributeObject.Type, with the order in which range visits Attributes
NestedAttributeObjectType(o, ord) ==
    IF o.CustomType # NilType THEN o.CustomType
    ELSE ObjectType(NestedAttributeObjectTypeLoop(o.Attributes, ord, EmptyMap))

AttributeGetType(a) ==
    IF a.kind = "Leaf" THEN a.type
    ELSE Wrap(a.mode,
              NestedAttributeObjectType(a.NestedObject,
                                        SomeOrder(DOMAIN a.NestedObject.Attributes)))

\* fwschema.UnderlyingAttributes.Type
UnderlyingAttributesType(attrs) ==
    ObjectType([n \in DOMAIN attrs |-> AttributeGetType(attrs[n])])

RECURSIVE BlockType(_)
BlockType(b) ==
    Wrap(b.mode,
         ObjectType([n \in DOMAIN b.Attributes \cup DOMAIN b.Blocks |->
                        IF n \in DOMAIN b.Blocks THEN BlockType(b.Blocks[n])
                        ELSE AttributeGetType(b.Attributes[n])]))

AttributeEqual(a, b) ==
    /\ a.kind = b.kind
    /\ a.kind = "Nested" => a.mode = b.mode
    /\ TypeEqual(AttributeGetType(a), AttributeGetType(b))
    /\ a.Required = b.Required
    /\ a.Optional = b.Optional
    /\ a.Computed = b.Computed

(***************************************************************************)
(* ApplyTerraform5AttributePathStep of every node a walk can stand on.     *)
(***************************************************************************)
\* attr.Type: an object type takes the name of one of its fields, a
\* collection type takes the element step of its own kind, a primitive none.
TypeApplyTerraform5AttributePathStep(t, step) ==
    CASE t.kind \in {"Object", "CustomObject"} /\ step.kind = "AttributeName" ->
            IF step.s \in DOMAIN t.attrTypes
            THEN Ok(Node("Type", t.attrTypes[step.s]))
            ELSE Fail("undefined attribute name in object type", step)
      [] t.kind = "List" /\ step.kind = "ElementKeyInt" -> Ok(Node("Type", t.elem))
      [] t.kind = "Set" /\ step.kind = "ElementKeyValue" -> Ok(Node("Type", t.elem))
      [] t.kind = "Map" /\ step.kind = "ElementKeyString" -> Ok(Node("Type", t.elem))
      [] OTHER -> Fail("cannot apply step to type", step)

\* fwschema.UnderlyingAttributes
UnderlyingAttributesApplyTerraform5AttributePathStep(attrs, step) ==
    IF step.kind # "AttributeName"
    THEN Fail("can't apply step to Attributes", step)
    ELSE IF step.s \in DOMAIN attrs
         THEN Ok(Node("Attribute", attrs[step.s]))
         ELSE Fail("no attribute on Attributes", step)

\* An Attribute: a leaf attribute hands the step to its type; a nested one
\* takes the element step of its nesting mode and yields its attributes.
AttributeApplyTerraform5AttributePathStep(a, step) ==
    IF a.kind = "Leaf" THEN TypeApplyTerraform5AttributePathStep(a.type, step)
    ELSE CASE a.mode = "Single" ->
                UnderlyingAttributesApplyTerraform5AttributePathStep(
                    a.NestedObject.Attributes, step)
           [] a.mode = "List" /\ step.kind = "ElementKeyInt" ->
                Ok(Node("UnderlyingAttributes", a.NestedObject.Attributes))
           [] a.mode = "Set" /\ step.kind = "ElementKeyValue" ->
                Ok(Node("UnderlyingAttributes", a.NestedObject.Attributes))
           [] a.mode = "Map" /\ step.kind = "ElementKeyString" ->
                Ok(Node("UnderlyingAttributes", a.NestedObject.Attributes))
           [] OTHER -> Fail("cannot apply step to nested attribute", step)

\* fwschema.NestedBlock
NestedBlockApplyTerraform5AttributePathStep(b, step) ==
    IF step.kind # "AttributeName"
    THEN Fail("can't apply step to block", step)
    ELSE IF step.s \in DOMAIN b.Attributes
         THEN Ok(Node("Attribute", b.Attributes[step.s]))
         ELSE IF step.s \in DOMAIN b.Blocks
              THEN Ok(Node("Block", b.Blocks[step.s]))
              ELSE Fail("no attribute or block on block", step)

\* A Block
BlockApplyTerraform5AttributePathStep(b, step) ==
    CASE b.mode = "Single" -> NestedBlockApplyTerraform5AttributePathStep(b, step)
      [] b.mode = "List" /\ step.kind = "ElementKeyInt" -> Ok(Node("NestedBlock", b))
      [] b.mode = "Set" /\ step.kind = "ElementKeyValue" -> Ok(Node("NestedBlock", b))
      [] OTHER -> Fail("cannot apply step to block", step)

SchemaApplyTerraform5AttributePathStep_BlocksFirst(s, step) ==
    IF step.kind # "AttributeName"
    THEN Fail("cannot apply AttributePathStep to schema", step)
    ELSE IF step.s \in DOMAIN s.Blocks
         THEN Ok(Node("Block", s.Blocks[step.s]))
         ELSE IF step.s \in DOMAIN s.Attributes
              THEN Ok(Node("Attribute", s.Attributes[step.s]))
              ELSE Fail("could not find attribute or block in schema", step)

\* Schema.ApplyTerraform5AttributePathStep
SchemaApplyTerraform5AttributePathStep(s, step) ==
    IF step.kind # "AttributeName"
    THEN Fail("cannot apply AttributePathStep to schema", step)
    ELSE IF step.s \in DOMAIN s.Attributes
         THEN Ok(Node("Attribute", s.Attributes[step.s]))
         ELSE IF step.s \in DOMAIN s.Blocks
              THEN Ok(Node("Block", s.Blocks[step.s]))
              ELSE Fail("could not find attribute or block in schema", step)

NestedAttributeObjectApplyTerraform5AttributePathStep_AnyStep(o, step) ==
    IF step.s \in DOMAIN o.Attributes
    THEN Ok(Node("Attribute", o.Attributes[step.s]))
    ELSE Fail("no attribute on NestedAttributeObject", step)

\* NestedAttributeObject.ApplyTerraform5AttributePathStep
NestedAttributeObjectApplyTerraform5AttributePathStep(o, step) ==
    IF step.kind # "AttributeName"
    THEN Fail("can't apply step to NestedAttributeObject", step)
    ELSE IF step.s \notin DOMAIN o.Attributes
         THEN Fail("no attribute on NestedAttributeObject", step)
         ELSE Ok(Node("Attribute", o.Attributes[step.s]))

\* The dynamic dispatch of stepper.ApplyTerraform5AttributePathStep
ApplyStep(node, step) ==
    CASE node.k = "Schema" -> SchemaApplyTerraform5AttributePathStep(node.v, step)
      [] node.k = "Attribute" -> AttributeApplyTerraform5AttributePathStep(node.v, step)
      [] node.k = "Block" -> BlockApplyTerraform5AttributePathStep(node.v, step)
      [] node.k = "Type" -> TypeApplyTerraform5AttributePathStep(node.v, step)
      [] node.k = "UnderlyingAttributes" ->
            UnderlyingAttributesApplyTerraform5AttributePathStep(node.v, step)
      [] node.k = "NestedBlock" -> NestedBlockApplyTerraform5AttributePathStep(node.v, step)

\* tftypes.WalkAttributePath: (result, remaining, error). With no step left
\* the walk ends on the node it stands on; a failing step ends it on the
\* node before the step, with the path from that step on remaining.
RECURSIVE WalkAttributePath(_, _)
WalkAttributePath(in, p) ==
    IF p = <<>> THEN [res |-> in, remaining |-> p, err |-> NoErr]
    ELSE LET next == ApplyStep(in, Head(p))
         IN IF next.err # NoErr
            THEN [res |-> in, remaining |-> p, err |-> next.err]
            ELSE WalkAttributePath(next.node, Tail(p))

ErrPathInsideAtomicAttribute == [e |-> "ErrPathInsideAtomicAttribute"]
ErrPathIsBlock == [e |-> "ErrPathIsBlock"]
WalkError(remaining, cause) ==
    [e |-> "still remains in the path", remaining |-> remaining, cause |-> cause]
UnexpectedType(kind) == [e |-> "got unexpected type", type |-> kind]

Returned(val, err) == [st |-> "returned", val |-> val, err |-> err]

AttributeAtTerraformPath_NoNestedBlockCase(s, p) ==
    LET w == WalkAttributePath(Node("Schema", s), p)
    IN IF w.err # NoErr THEN Returned(Nil, WalkError(w.remaining, w.err))
       ELSE CASE w.res.k \in {"Type", "UnderlyingAttributes"} ->
                    Returned(Nil, ErrPathInsideAtomicAttribute)
              [] w.res.k = "Attribute" -> Returned(w.res, NoErr)
              [] w.res.k = "Block" -> Returned(Nil, ErrPathIsBlock)
              [] OTHER -> Returned(Nil, UnexpectedType(w.res.k))

AttributeAtTerraformPath_BlockAsAttribute(s, p) ==
    LET w == WalkAttributePath(Node("Schema", s), p)
    IN IF w.err # NoErr THEN Returned(Nil, WalkError(w.remaining, w.err))
       ELSE CASE w.res.k \in {"Type", "UnderlyingAttributes", "NestedBlock"} ->
                    Returned(Nil, ErrPathInsideAtomicAttribute)
              [] w.res.k \in {"Attribute", "Block"} -> Returned(w.res, NoErr)
              [] OTHER -> Returned(Nil, UnexpectedType(w.res.k))

\* Schema.AttributeAtTerraformPath
AttributeAtTerraformPath(s, p) ==
    LET w == WalkAttributePath(Node("Schema", s), p)
    IN IF w.err # NoErr THEN Returned(Nil, WalkError(w.remaining, w.err))
       ELSE CASE w.res.k = "Type" -> Returned(Nil, ErrPathInsideAtomicAttribute)
              [] w.res.k = "UnderlyingAttributes" ->
                    Returned(Nil, ErrPathInsideAtomicAttribute)
              [] w.res.k = "NestedBlock" -> Returned(Nil, ErrPathInsideAtomicAttribute)
              [] w.res.k = "Attribute" -> Returned(w.res, NoErr)
              [] w.res.k = "Block" -> Returned(Nil, ErrPathIsBlock)
              [] OTHER -> Returned(Nil, UnexpectedType(w.res.k))

SchemaType_AttributesLast(s) ==
    ObjectType([n \in DOMAIN s.Attributes \cup DOMAIN s.Blocks |->
                   IF n \in DOMAIN s.Attributes
                   THEN AttributeGetType(s.Attributes[n])
                   ELSE BlockType(s.Blocks[n])])

\* Schema.Type: the second loop overwrites what the first stored under a name
SchemaType(s) ==
    LET fromAttributes == [n \in DOMAIN s.Attributes |-> AttributeGetType(s.Attributes[n])]
        fromBlocks == [n \in DOMAIN s.Blocks |-> BlockType(s.Blocks[n])]
    IN ObjectType(fromBlocks @@ fromAttributes)

TypeAtTerraformPath_NoTypeCase(s, p) ==
    LET w == WalkAttributePath(Node("Schema", s), p)
    IN IF w.err # NoErr THEN Returned(NilType, WalkError(w.remaining, w.err))
       ELSE CASE w.res.k = "UnderlyingAttributes" ->
                    Returned(UnderlyingAttributesType(w.res.v), NoErr)
              [] w.res.k = "Attribute" -> Returned(AttributeGetType(w.res.v), NoErr)
              [] w.res.k = "NestedBlock" -> Returned(BlockType(w.res.v), NoErr)
              [] w.res.k = "Block" -> Returned(BlockType(w.res.v), NoErr)
              [] w.res.k = "Schema" -> Returned(SchemaType(w.res.v), NoErr)
              [] OTHER -> Returned(NilType, UnexpectedType(w.res.k))

TypeAtTerraformPath_AttributeAsObject(s, p) ==
    LET w == WalkAttributePath(Node("Schema", s), p)
    IN IF w.err # NoErr THEN Returned(NilType, WalkError(w.remaining, w.err))
       ELSE CASE w.res.k = "Type" -> Returned(w.res.v, NoErr)
              [] w.res.k = "UnderlyingAttributes" ->
                    Returned(UnderlyingAttributesType(w.res.v), NoErr)
              [] w.res.k = "Attribute" ->
                    Returned(IF w.res.v.kind = "Leaf" THEN w.res.v.type
                             ELSE UnderlyingAttributesType(w.res.v.NestedObject.Attributes),
                             NoErr)
              [] w.res.k = "NestedBlock" -> Returned(BlockType(w.res.v), NoErr)
              [] w.res.k = "Block" -> Returned(BlockType(w.res.v), NoErr)
              [] w.res.k = "Schema" -> Returned(SchemaType(w.res.v), NoErr)
              [] OTHER -> Returned(NilType, UnexpectedType(w.res.k))

\* Schema.TypeAtTerraformPath
TypeAtTerraformPath(s, p) ==
    LET w == WalkAttributePath(Node("Schema", s), p)
    IN IF w.err # NoErr THEN Returned(NilType, WalkError(w.remaining, w.err))
       ELSE CASE w.res.k = "Type" -> Returned(w.res.v, NoErr)
              [] w.res.k = "UnderlyingAttributes" ->
                    Returned(UnderlyingAttributesType(w.res.v), NoErr)
              [] w.res.k = "Attribute" -> Returned(AttributeGetType(w.res.v), NoErr)
              [] w.res.k = "NestedBlock" -> Returned(BlockType(w.res.v), NoErr)
              [] w.res.k = "Block" -> Returned(BlockType(w.res.v), NoErr)
              [] w.res.k = "Schema" -> Returned(SchemaType(w.res.v), NoErr)
              [] OTHER -> Returned(NilType, UnexpectedType(w.res.k))

RECURSIVE NestedAttributeObjectEqualLoop(_, _, _)
\* for name, oAttribute := range o.Attributes { ... }
NestedAttributeObjectEqualLoop(o, oth, ord) ==
    IF ord = <<>> THEN TRUE
    ELSE IF Head(ord) \notin DOMAIN oth.Attributes THEN FALSE
         ELSE IF ~AttributeEqual(o.Attributes[Head(ord)], oth.Attributes[Head(ord)])
              THEN FALSE
              ELSE NestedAttributeObjectEqualLoop(o, oth, Tail(ord))

NestedAttributeObjectEqual_NoLenCheck(o, oth, ord) ==
    IF ~TypeEqual(NestedAttributeObjectType(o, SomeOrder(DOMAIN o.Attributes)),
                  NestedAttributeObjectType(oth, SomeOrder(DOMAIN oth.Attributes)))
    THEN FALSE
    ELSE NestedAttributeObjectEqualLoop(o, oth, ord)

\* NestedAttributeObject.Equal, with the order in which range visits o.Attributes
NestedAttributeObjectEqual(o, oth, ord) ==
    IF ~TypeEqual(NestedAttributeObjectType(o, SomeOrder(DOMAIN o.Attributes)),
                  NestedAttributeObjectType(oth, SomeOrder(DOMAIN oth.Attributes)))
    THEN FALSE
    ELSE IF Cardinality(DOMAIN o.Attributes) # Cardinality(DOMAIN oth.Attributes)
         THEN FALSE
         ELSE NestedAttributeObjectEqualLoop(o, oth, ord)

(***************************************************************************)
(* The schemas and objects the operations are exercised on.                *)
(***************************************************************************)
AttrBool == LeafAttribute(BoolType, TRUE, FALSE, FALSE)
AttrBoolOptional == LeafAttribute(BoolType, FALSE, TRUE, FALSE)
AttrStrings == LeafAttribute(ListType(StringType), FALSE, TRUE, FALSE)
AttrObject == LeafAttribute(ObjectType("a" :> BoolType), FALSE, TRUE, TRUE)
AttrMapOfSets == LeafAttribute(MapType(SetType(StringType)), FALSE, FALSE, TRUE)
AttrListNested ==
    NestedAttribute("List", NestedObject("a" :> AttrBool, NilType), FALSE, TRUE, FALSE)
AttrSetNested ==
    NestedAttribute("Set",
                    NestedObject("b" :> AttrStrings,
                                 CustomObjectType("c1", "b" :> ListType(StringType))),
                    TRUE, FALSE, FALSE)
AttrMapNested ==
    NestedAttribute("Map", NestedObject("a" :> AttrObject @@ "b" :> AttrBool, NilType),
                    FALSE, TRUE, FALSE)
AttrSingleNested ==
    NestedAttribute("Single",
                    NestedObject("a" :> AttrListNested @@ "b" :> AttrStrings, NilType),
                    FALSE, TRUE, TRUE)

SetBlock == BlockOf("Set", "a" :> AttrStrings, EmptyMap)
ListBlock == BlockOf("List", "a" :> AttrBool, "b" :> SetBlock)
SingleBlock == BlockOf("Single", "b" :> AttrMapOfSets, "a" :> ListBlock)

SchemaAttributeMaps ==
    { EmptyMap,
      "a" :> AttrBool,
      "a" :> AttrStrings @@ "b" :> AttrObject,
      "a" :> AttrListNested @@ "b" :> AttrSingleNested,
      "a" :> AttrMapNested @@ "b" :> AttrSetNested,
      "b" :> AttrMapOfSets }

SchemaBlockMaps ==
    { EmptyMap,
      "b" :> ListBlock,
      "a" :> SingleBlock,
      "a" :> SetBlock @@ "b" :> SingleBlock }

Schemas ==
    {[Attributes |-> am, Blocks |-> bm] : am \in SchemaAttributeMaps, bm \in SchemaBlockMaps}

\* No name is a key of both maps.
WellFormed(s) == DOMAIN s.Attributes \cap DOMAIN s.Blocks = {}

ObjectAttributePool == {AttrBool, AttrBoolOptional, AttrListNested}
ObjectCustomTypes == {NilType, CustomObjectType("c1", "a" :> BoolType)}

NestedAttributeObjects ==
    {NestedObject(am, ct) :
        am \in UNION {[D -> ObjectAttributePool] : D \in SUBSET Names},
        ct \in ObjectCustomTypes}

DefaultSchema == [Attributes |-> EmptyMap, Blocks |-> EmptyMap]
DefaultObject == NestedObject(EmptyMap, NilType)

(***************************************************************************)
(* Specification Spec: calls on a Schema.                                  *)
(***************************************************************************)
ObjIdle ==
    /\ obj = DefaultObject
    /\ other = DefaultObject
    /\ order = <<>>
    /\ objStep = Nil
    /\ objStepResult = Pending
    /\ equalResult = Pending
    /\ objTypeResult = Pending
    /\ objTypePrev = Pending

SchemaIdle ==
    /\ schema = DefaultSchema
    /\ path = <<>>
    /\ attrResult = Pending
    /\ typeResult = Pending
    /\ stepResult = Pending
    /\ schemaTypeResult = Pending
    /\ schemaTypePrev = Pending

BoolIdle ==
    /\ bvalue = Nil
    /\ bother = Nil
    /\ bwire = Nil
    /\ btf = Pending
    /\ bfrom = Pending
    /\ bback = Pending
    /\ bequal = Pending

ValIdle ==
    /\ vattr = Nil
    /\ vconfig = Nil
    /\ vprior = <<>>
    /\ viter = Nil
    /\ vresp = Pending

Init ==
    /\ schema \in Schemas
    /\ path \in Paths
    /\ attrResult = Pending
    /\ typeResult = Pending
    /\ stepResult = Pending
    /\ schemaTypeResult = Pending
    /\ schemaTypePrev = Pending
    /\ ObjIdle
    /\ ValIdle
    /\ BoolIdle

CallAttributeAtTerraformPath ==
    /\ attrResult = Pending
    /\ attrResult' = AttributeAtTerraformPath(schema, path)
    /\ UNCHANGED <<schema, path, typeResult, stepResult, schemaTypeResult, schemaTypePrev>>
    /\ UNCHANGED objVars
    /\ UNCHANGED valVars
    /\ UNCHANGED boolVars

CallTypeAtTerraformPath ==
    /\ typeResult = Pending
    /\ typeResult' = TypeAtTerraformPath(schema, path)
    /\ UNCHANGED <<schema, path, attrResult, stepResult, schemaTypeResult, schemaTypePrev>>
    /\ UNCHANGED objVars
    /\ UNCHANGED valVars
    /\ UNCHANGED boolVars

\* s.ApplyTerraform5AttributePathStep(step), the step being the path's first
CallSchemaApplyStep ==
    /\ stepResult = Pending
    /\ path # <<>>
    /\ stepResult' = SchemaApplyTerraform5AttributePathStep(schema, Head(path))
    /\ UNCHANGED <<schema, path, attrResult, typeResult, schemaTypeResult, schemaTypePrev>>
    /\ UNCHANGED objVars
    /\ UNCHANGED valVars
    /\ UNCHANGED boolVars

\* s.Type(), called at most twice
CallSchemaType ==
    /\ schemaTypePrev = Pending
    /\ schemaTypeResult' = Returned(SchemaType(schema), NoErr)
    /\ schemaTypePrev' = schemaTypeResult
    /\ UNCHANGED <<schema, path, attrResult, typeResult, stepResult>>
    /\ UNCHANGED objVars
    /\ UNCHANGED valVars
    /\ UNCHANGED boolVars

Next ==
    \/ CallAttributeAtTerraformPath
    \/ CallTypeAtTerraformPath
    \/ CallSchemaApplyStep
    \/ CallSchemaType

Spec == Init /\ [][Next]_vars

(***************************************************************************)
(* Specification SpecObject: calls on a NestedAttributeObject.             *)
(***************************************************************************)
InitObject ==
    /\ obj \in NestedAttributeObjects
    /\ other \in NestedAttributeObjects
    /\ order \in Orders(DOMAIN obj.Attributes)
    /\ objStep = Nil
    /\ objStepResult = Pending
    /\ equalResult = Pending
    /\ objTypeResult = Pending
    /\ objTypePrev = Pending
    /\ SchemaIdle
    /\ ValIdle
    /\ BoolIdle

CallObjectApplyStep ==
    /\ objStepResult = Pending
    /\ \E step \in Steps :
          /\ objStep' = step
          /\ objStepResult' = NestedAttributeObjectApplyTerraform5AttributePathStep(obj, step)
    /\ UNCHANGED <<obj, other, order, equalResult, objTypeResult, objTypePrev>>
    /\ UNCHANGED schemaVars
    /\ UNCHANGED valVars
    /\ UNCHANGED boolVars

CallObjectEqual ==
    /\ equalResult = Pending
    /\ equalResult' = Returned(NestedAttributeObjectEqual(obj, other, order), NoErr)
    /\ UNCHANGED <<obj, other, order, objStep, objStepResult, objTypeResult, objTypePrev>>
    /\ UNCHANGED schemaVars
    /\ UNCHANGED valVars
    /\ UNCHANGED boolVars

\* o.Type(); a second call ranges over the map in an order of its own
CallObjectType ==
    /\ objTypePrev = Pending
    /\ \E ord \in Orders(DOMAIN obj.Attributes) :
          objTypeResult' = Returned(NestedAttributeObjectType(obj, ord), NoErr)
    /\ objTypePrev' = objTypeResult
    /\ UNCHANGED <<obj, other, order, objStep, objStepResult, equalResult>>
    /\ UNCHANGED schemaVars
    /\ UNCHANGED valVars
    /\ UNCHANGED boolVars

NextObject ==
    \/ CallObjectApplyStep
    \/ CallObjectEqual
    \/ CallObjectType

SpecObject == InitObject /\ [][NextObject]_vars

(***************************************************************************)
(* Specification SpecSelf: an object compared with itself, and types       *)
(* derived twice from the same object and the same schema.                 *)
(***************************************************************************)
InitSelf ==
    /\ obj \in NestedAttributeObjects
    /\ other = obj
    /\ order \in Orders(DOMAIN obj.Attributes)
    /\ objStep = Nil
    /\ objStepResult = Pending
    /\ equalResult = Pending
    /\ objTypeResult = Pending
    /\ objTypePrev = Pending
    /\ schema \in Schemas
    /\ path = <<>>
    /\ attrResult = Pending
    /\ typeResult = Pending
    /\ stepResult = Pending
    /\ schemaTypeResult = Pending
    /\ schemaTypePrev = Pending
    /\ ValIdle
    /\ BoolIdle

NextSelf ==
    \/ CallObjectEqual
    \/ CallObjectType
    \/ CallSchemaType

SpecSelf == InitSelf /\ [][NextSelf]_vars

(***************************************************************************)
(* Properties of path resolution, checked under Spec.                      *)
(***************************************************************************)
Walked == WalkAttributePath(Node("Schema", schema), path)

IsSuffix(q, p) == \E i \in 1..(Len(p) + 1) : q = SubSeq(p, i, Len(p))

\* C1: Schema.AttributeAtTerraformPath classifies the walk result. A failed
\* walk gives a nil attribute and an error wrapping the step error with the
\* steps that remain (the failing step first); a walk ending on an Attribute
\* gives that attribute and no error; one ending on an attr.Type, an
\* UnderlyingAttributes or a NestedBlock gives nil and
\* ErrPathInsideAtomicAttribute; one ending on a Block gives nil and
\* ErrPathIsBlock. Never both an attribute and an error.
C1_AttributeAtClassifiesWalk ==
    attrResult # Pending =>
        /\ Walked.err # NoErr =>
              /\ attrResult.val = Nil
              /\ attrResult.err # NoErr
              /\ attrResult.err.cause = Walked.err
              /\ attrResult.err.remaining = Walked.remaining
              /\ attrResult.err.remaining # <<>>
              /\ IsSuffix(attrResult.err.remaining, path)
              /\ attrResult.err.cause.step = Head(attrResult.err.remaining)
        /\ (Walked.err = NoErr /\ Walked.res.k = "Attribute") =>
              attrResult = Returned(Walked.res, NoErr)
        /\ (Walked.err = NoErr /\ Walked.res.k \in {"Type", "UnderlyingAttributes", "NestedBlock"}) =>
              attrResult = Returned(Nil, ErrPathInsideAtomicAttribute)
        /\ (Walked.err = NoErr /\ Walked.res.k = "Block") =>
              attrResult = Returned(Nil, ErrPathIsBlock)
        /\ ~(attrResult.val # Nil /\ attrResult.err # NoErr)

\* A walk that consumed two steps and failed on the third.
C1_Witness ==
    /\ attrResult # Pending
    /\ Len(path) = 3
    /\ Walked.err # NoErr
    /\ Len(attrResult.err.remaining) = 1

C1_WitnessBlock ==
    /\ attrResult # Pending
    /\ Walked.err = NoErr
    /\ Walked.res.k = "Block"
    /\ Len(path) = 2

C1_WitnessAttribute ==
    /\ attrResult # Pending
    /\ Walked.err = NoErr
    /\ Walked.res.k = "Attribute"
    /\ Len(path) = 3

C1_WitnessHolders ==
    /\ attrResult # Pending
    /\ Walked.err = NoErr
    /\ Walked.res.k = "UnderlyingAttributes"

IsUnexpectedType(err) == err.e = "got unexpected type"

\* C2 as stated: for a well-formed schema and a path whose walk succeeds,
\* AttributeAtTerraformPath never returns the unexpected-type error.
C2_NeverUnexpectedType ==
    (attrResult # Pending /\ WellFormed(schema) /\ Walked.err = NoErr) =>
        ~IsUnexpectedType(attrResult.err)

\* C2, amended: for a well-formed schema and a non-empty path whose walk
\* succeeds, AttributeAtTerraformPath returns success,
\* ErrPathInsideAtomicAttribute or ErrPathIsBlock and never the
\* unexpected-type error; for the empty path the walk ends on the Schema
\* itself and the unexpected-type error is what it returns.
C2_NeverUnexpectedTypeOnNonEmptyPath ==
    (attrResult # Pending /\ WellFormed(schema) /\ Walked.err = NoErr) =>
        IF path = <<>>
        THEN attrResult = Returned(Nil, UnexpectedType("Schema"))
        ELSE attrResult.err \in {NoErr, ErrPathInsideAtomicAttribute, ErrPathIsBlock}

\* A walk of two steps that ends on a NestedBlock.
C2_Witness ==
    /\ attrResult # Pending
    /\ WellFormed(schema)
    /\ Walked.err = NoErr
    /\ Len(path) = 2
    /\ Walked.res.k = "NestedBlock"

\* C3: when AttributeAtTerraformPath returns an attribute A and no error,
\* TypeAtTerraformPath of the same path returns A.GetType() and no error.
C3_TypeAtIsGetType ==
    (attrResult # Pending /\ typeResult # Pending /\ attrResult.err = NoErr) =>
        typeResult = Returned(AttributeGetType(attrResult.val.v), NoErr)

\* Both calls returned on a path to a nested attribute below the top level.
C3_Witness ==
    /\ attrResult # Pending
    /\ typeResult # Pending
    /\ attrResult.err = NoErr
    /\ attrResult.val.v.kind = "Nested"
    /\ Len(path) > 1

\* The path without its last step, and the leaf attribute it resolves to.
PathFront == SubSeq(path, 1, Len(path) - 1)
PathLast == path[Len(path)]
EndsInsideLeaf ==
    /\ path # <<>>
    /\ AttributeAtTerraformPath(schema, PathFront).err = NoErr
    /\ AttributeAtTerraformPath(schema, PathFront).val.v.kind = "Leaf"
LeafStep ==
    TypeApplyTerraform5AttributePathStep(
        AttributeAtTerraformPath(schema, PathFront).val.v.type, PathLast)

\* C4: on a path that ends one step inside a leaf attribute's value, the step
\* being applicable to the leaf's type, AttributeAtTerraformPath returns
\* ErrPathInsideAtomicAttribute and TypeAtTerraformPath returns the type the
\* step reaches; TypeAtTerraformPath fails on such a path exactly when the
\* step cannot be applied to the leaf's type. And TypeAtTerraformPath
\* succeeds wherever AttributeAtTerraformPath returns success,
\* ErrPathInsideAtomicAttribute or ErrPathIsBlock.
C4_TypeAtMorePermissive ==
    (attrResult # Pending /\ typeResult # Pending) =>
        /\ EndsInsideLeaf =>
              IF LeafStep.err = NoErr
              THEN /\ attrResult = Returned(Nil, ErrPathInsideAtomicAttribute)
                   /\ typeResult = Returned(LeafStep.node.v, NoErr)
              ELSE /\ typeResult.err # NoErr
                   /\ typeResult.err.cause = LeafStep.err
        /\ attrResult.err \in {NoErr, ErrPathInsideAtomicAttribute, ErrPathIsBlock} =>
              typeResult.err = NoErr

\* One step inside a leaf attribute that itself sits in a nested attribute.
C4_Witness ==
    /\ attrResult # Pending
    /\ typeResult # Pending
    /\ EndsInsideLeaf
    /\ LeafStep.err = NoErr
    /\ Len(path) = 3

C4_WitnessInapplicable ==
    /\ attrResult # Pending
    /\ typeResult # Pending
    /\ EndsInsideLeaf
    /\ LeafStep.err # NoErr

\* C5: Schema.ApplyTerraform5AttributePathStep returns an error and no node
\* for a step that is not an AttributeName and for a name in neither map; for
\* a name in Attributes it returns that attribute; for a name only in Blocks
\* it returns that block.
C5_SchemaStep ==
    stepResult # Pending =>
        LET step == Head(path)
        IN /\ step.kind # "AttributeName" =>
                 (stepResult.node = Nil /\ stepResult.err # NoErr)
           /\ (step.kind = "AttributeName"
                 /\ step.s \notin DOMAIN schema.Attributes \cup DOMAIN schema.Blocks) =>
                 (stepResult.node = Nil /\ stepResult.err # NoErr)
           /\ (step.kind = "AttributeName" /\ step.s \in DOMAIN schema.Attributes) =>
                 stepResult = Ok(Node("Attribute", schema.Attributes[step.s]))
           /\ (step.kind = "AttributeName" /\ step.s \notin DOMAIN schema.Attributes
                 /\ step.s \in DOMAIN schema.Blocks) =>
                 stepResult = Ok(Node("Block", schema.Blocks[step.s]))

\* A name that is a key of both maps was stepped into.
C5_Witness ==
    /\ stepResult # Pending
    /\ Head(path).kind = "AttributeName"
    /\ Head(path).s \in DOMAIN schema.Attributes \cap DOMAIN schema.Blocks

C5_WitnessBlockOnly ==
    /\ stepResult # Pending
    /\ Head(path).kind = "AttributeName"
    /\ Head(path).s \in DOMAIN schema.Blocks \ DOMAIN schema.Attributes

C5_WitnessMapKey ==
    /\ stepResult # Pending
    /\ Head(path).kind = "ElementKeyString"
    /\ Head(path).s \in DOMAIN schema.Attributes

(***************************************************************************)
(* Properties of the NestedAttributeObject, checked under SpecObject.      *)
(***************************************************************************)
\* C6: NestedAttributeObject.ApplyTerraform5AttributePathStep returns the
\* child attribute exactly when the step is an AttributeName that is a key of
\* Attributes; for any other step kind or an unknown name it returns an error
\* and a nil result.
C6_ObjectStep ==
    objStepResult # Pending =>
        IF objStep.kind = "AttributeName" /\ objStep.s \in DOMAIN obj.Attributes
        THEN objStepResult = Ok(Node("Attribute", obj.Attributes[objStep.s]))
        ELSE objStepResult.node = Nil /\ objStepResult.err # NoErr

\* A map key that spells the name of a child attribute was applied.
C6_Witness ==
    /\ objStepResult # Pending
    /\ objStep.kind = "ElementKeyString"
    /\ objStep.s \in DOMAIN obj.Attributes

C6_WitnessChild ==
    /\ objStepResult # Pending
    /\ objStepResult.err = NoErr
    /\ objStepResult.node.v.kind = "Nested"

DerivedType(o) == NestedAttributeObjectType(o, SomeOrder(DOMAIN o.Attributes))

\* C7: o.Equal(other) is true if and only if o.Type() equals other.Type(),
\* both have the same child attribute names and the children of every name
\* are Equal, whatever the order in which the attributes are visited.
C7_EqualIff ==
    equalResult # Pending =>
        equalResult.val =
            (/\ TypeEqual(DerivedType(obj), DerivedType(other))
             /\ DOMAIN obj.Attributes = DOMAIN other.Attributes
             /\ \A n \in DOMAIN obj.Attributes :
                   AttributeEqual(obj.Attributes[n], other.Attributes[n]))

\* Equal types, every child of o Equal to other's, but other has one more.
C7_Witness ==
    /\ equalResult # Pending
    /\ TypeEqual(DerivedType(obj), DerivedType(other))
    /\ DOMAIN obj.Attributes # DOMAIN other.Attributes
    /\ DOMAIN obj.Attributes # {}
    /\ \A n \in DOMAIN obj.Attributes :
          /\ n \in DOMAIN other.Attributes
          /\ AttributeEqual(obj.Attributes[n], other.Attributes[n])

C7_WitnessTrue ==
    /\ equalResult # Pending
    /\ equalResult.val
    /\ Cardinality(DOMAIN obj.Attributes) = 2

C7_WitnessChildDiffers ==
    /\ equalResult # Pending
    /\ ~equalResult.val
    /\ TypeEqual(DerivedType(obj), DerivedType(other))
    /\ DOMAIN obj.Attributes = DOMAIN other.Attributes

\* C8: NestedAttributeObject.Type() returns CustomType whenever it is set,
\* whatever Attributes holds; otherwise an ObjectType whose field names are
\* the keys of Attributes, each mapped to that attribute's GetType().
C8_ObjectType ==
    objTypeResult # Pending =>
        IF obj.CustomType # NilType
        THEN objTypeResult.val = obj.CustomType
        ELSE /\ objTypeResult.val.kind = "Object"
             /\ DOMAIN objTypeResult.val.attrTypes = DOMAIN obj.Attributes
             /\ \A n \in DOMAIN obj.Attributes :
                   objTypeResult.val.attrTypes[n] = AttributeGetType(obj.Attributes[n])

\* CustomType is set and differs from what Attributes would derive.
C8_Witness ==
    /\ objTypeResult # Pending
    /\ obj.CustomType # NilType
    /\ DOMAIN obj.Attributes # DOMAIN obj.CustomType.attrTypes

C8_WitnessDerived ==
    /\ objTypeResult # Pending
    /\ obj.CustomType = NilType
    /\ Cardinality(DOMAIN obj.Attributes) = 2

(***************************************************************************)
(* Checked under SpecSelf.                                                 *)
(***************************************************************************)
\* C9: o.Equal(o) is true; two successive calls of Type() on the same object
\* (and on the same schema) return types that are Equal; no call modifies
\* the object or the schema.
C9_ReflexiveAndIdempotent ==
    /\ [](/\ (equalResult # Pending /\ other = obj) => equalResult.val
          /\ objTypePrev # Pending => TypeEqual(objTypePrev.val, objTypeResult.val)
          /\ schemaTypePrev # Pending => TypeEqual(schemaTypePrev.val, schemaTypeResult.val))
    /\ [][obj' = obj /\ schema' = schema]_vars

\* Everything was called: Equal once, both Type() twice, on a two-attribute
\* object whose attributes have different types.
C9_Witness ==
    /\ equalResult # Pending
    /\ other = obj
    /\ objTypePrev # Pending
    /\ schemaTypePrev # Pending
    /\ Cardinality(DOMAIN obj.Attributes) = 2
    /\ obj.CustomType = NilType
    /\ ~TypeEqual(AttributeGetType(obj.Attributes["a"]), AttributeGetType(obj.Attributes["b"]))

(***************************************************************************)
(* Checked under Spec.                                                     *)
(***************************************************************************)
\* C10 as stated: Schema.Type() returns an ObjectType whose field names are
\* the union of the Attributes keys and the Blocks keys, every attribute
\* name mapped to the attribute's GetType() and every block name to the
\* block's Type().
C10_SchemaTypeUnion ==
    schemaTypeResult # Pending =>
        /\ schemaTypeResult.val.kind = "Object"
        /\ DOMAIN schemaTypeResult.val.attrTypes =
              DOMAIN schema.Attributes \cup DOMAIN schema.Blocks
        /\ \A n \in DOMAIN schema.Attributes :
              schemaTypeResult.val.attrTypes[n] = AttributeGetType(schema.Attributes[n])
        /\ \A n \in DOMAIN schema.Blocks :
              schemaTypeResult.val.attrTypes[n] = BlockType(schema.Blocks[n])

\* C10, amended: Schema.Type() returns an ObjectType whose field names are
\* the union of the Attributes keys and the Blocks keys, every block name
\* mapped to the block's Type() and every attribute name that is not also a
\* block name mapped to the attribute's GetType().
C10_SchemaTypeBlocksOverride ==
    schemaTypeResult # Pending =>
        /\ schemaTypeResult.val.kind = "Object"
        /\ DOMAIN schemaTypeResult.val.attrTypes =
              DOMAIN schema.Attributes \cup DOMAIN schema.Blocks
        /\ \A n \in DOMAIN schema.Attributes \ DOMAIN schema.Blocks :
              schemaTypeResult.val.attrTypes[n] = AttributeGetType(schema.Attributes[n])
        /\ \A n \in DOMAIN schema.Blocks :
              schemaTypeResult.val.attrTypes[n] = BlockType(schema.Blocks[n])

\* Type() was called on a schema where one name is a key of both maps and
\* another only of Attributes.
C10_Witness ==
    /\ schemaTypeResult # Pending
    /\ DOMAIN schema.Attributes \cap DOMAIN schema.Blocks # {}
    /\ DOMAIN schema.Attributes \ DOMAIN schema.Blocks # {}

(***************************************************************************)
(* Attribute validation (fwserver): AttributeValidate and                  *)
(* AttributeValidateNestedAttributes.                                      *)
(*                                                                         *)
(*   attr.Value   [vk |-> "Bool", st, b], [vk |-> "String", st, s],        *)
(*                [vk |-> "List" | "Set", st, elems |-> sequence],         *)
(*                [vk |-> "Map", st, elems |-> key :> value],              *)
(*                [vk |-> "Object", st, attrs |-> name :> value]           *)
(*                with st one of "known", "null", "unknown"                *)
(*   diagnostic   [severity, path, summary, detail]                        *)
(*   response     [Diagnostics |-> sequence of diagnostics,                *)
(*                 log |-> what the pass did so far, each entry with the   *)
(*                         diagnostics held when it was written]           *)
(* An attribute under validation carries, besides the fields above,        *)
(* DeprecationMessage, Validators, Tfsdk (it is a tfsdk.Attribute),        *)
(* Valuable (its values implement the Valuable interface of its nesting    *)
(* mode) and ConvError (their conversion returns an error diagnostic).     *)
(***************************************************************************)
MapKeys == {"x", "y"}

BoolValueOf(st, b) == [vk |-> "Bool", st |-> st, b |-> b]
StringValueOf(st, str) == [vk |-> "String", st |-> st, s |-> str]
ListValueOf(st, elems) == [vk |-> "List", st |-> st, elems |-> elems]
SetValueOf(st, elems) == [vk |-> "Set", st |-> st, elems |-> elems]
MapValueOf(st, elems) == [vk |-> "Map", st |-> st, elems |-> elems]
ObjectValueOf(st, attrs) == [vk |-> "Object", st |-> st, attrs |-> attrs]

ValueOfKind(kind, st) ==
    CASE kind = "Bool" -> BoolValueOf(st, FALSE)
      [] kind = "String" -> StringValueOf(st, "")
      [] kind = "List" -> ListValueOf(st, <<>>)
      [] kind = "Set" -> SetValueOf(st, <<>>)
      [] kind = "Map" -> MapValueOf(st, EmptyMap)
      [] OTHER -> ObjectValueOf(st, EmptyMap)

IsNull(v) == v.st = "null"
IsUnknown(v) == v.st = "unknown"

\* Elements() of a list, set or map value: none unless the value is known
Elements(v) == IF v.st = "known" THEN v.elems ELSE ValueOfKind(v.vk, "null").elems

\* path.Path.AtSetValue: the step carries the element
SetStep(value) == [kind |-> "ElementKeyValue", s |-> "", n |-> 0, v |-> value]

Diag(sev, p, summary, detail) ==
    [severity |-> sev, path |-> p, summary |-> summary, detail |-> detail]

HasError(ds) == \E i \in 1..Len(ds) : ds[i].severity = "error"

AddAttributeError(r, p, summary) ==
    [r EXCEPT !.Diagnostics = Append(@, Diag("error", p, summary, 0))]

AddAttributeWarning(r, p, summary) ==
    [r EXCEPT !.Diagnostics = Append(@, Diag("warning", p, summary, 0))]

DiagnosticsAppend(r, ds) == [r EXCEPT !.Diagnostics = @ \o ds]

Logged(r, ev, p, idx) ==
    [r EXCEPT !.log = Append(@, [ev |-> ev, path |-> p, idx |-> idx,
                                 diags |-> r.Diagnostics])]

ModeOf(a) == IF a.kind = "Nested" THEN a.mode ELSE "Unknown"
GetAttributes(a) == IF a.kind = "Nested" THEN a.NestedObject.Attributes ELSE EmptyMap
ValueKindOf(a) ==
    IF a.kind = "Leaf" THEN a.type.kind
    ELSE IF a.mode \in {"List", "Set", "Map"} THEN a.mode ELSE "Object"

\* The value under path p of the raw configuration, if every step applies.
RECURSIVE TerraformValueAtPath(_, _)
TerraformValueAtPath(v, p) ==
    IF p = <<>> THEN [ok |-> TRUE, value |-> v]
    ELSE LET step == Head(p)
             invalid == [ok |-> FALSE, value |-> Nil]
         IN IF v.st # "known" THEN invalid
            ELSE CASE step.kind = "AttributeName" /\ v.vk = "Object" ->
                        IF step.s \in DOMAIN v.attrs
                        THEN TerraformValueAtPath(v.attrs[step.s], Tail(p))
                        ELSE invalid
                   [] step.kind = "ElementKeyInt" /\ v.vk = "List" ->
                        IF step.n + 1 \in 1..Len(v.elems)
                        THEN TerraformValueAtPath(v.elems[step.n + 1], Tail(p))
                        ELSE invalid
                   [] step.kind = "ElementKeyValue" /\ v.vk = "Set" ->
                        IF \E i \in 1..Len(v.elems) : v.elems[i] = step.v
                        THEN TerraformValueAtPath(step.v, Tail(p))
                        ELSE invalid
                   [] step.kind = "ElementKeyString" /\ v.vk = "Map" ->
                        IF step.s \in DOMAIN v.elems
                        THEN TerraformValueAtPath(v.elems[step.s], Tail(p))
                        ELSE invalid
                   [] OTHER -> invalid

\* fwschemadata.Data.ValueAtPath for the attribute a found at path p: a null
\* value of the attribute's type where the configuration cannot be stepped
\* into, an error where what is there does not fit the attribute's type.
ValueAtPath(config, p, a) ==
    LET raw == TerraformValueAtPath(config, p)
    IN IF ~raw.ok
       THEN [value |-> ValueOfKind(ValueKindOf(a), "null"), diags |-> <<>>]
       ELSE IF raw.value.vk # ValueKindOf(a)
            THEN [value |-> Nil,
                  diags |-> <<Diag("error", p, "Configuration Read Error", 0)>>]
            ELSE [value |-> raw.value, diags |-> <<>>]

\* validator.Validate: a validator appends nothing, a warning or an error
ValidatorValidate(validator, idx, p, r) ==
    LET called == Logged(r, "Validate", p, idx)
    IN CASE validator = "error" ->
               DiagnosticsAppend(called, <<Diag("error", p, "Validator", idx)>>)
         [] validator = "warning" ->
               DiagnosticsAppend(called, <<Diag("warning", p, "Validator", idx)>>)
         [] OTHER -> called

RECURSIVE ValidatorsLoop_Reversed(_, _, _, _)
ValidatorsLoop_Reversed(validators, idx, p, r) ==
    IF idx > Len(validators) THEN r
    ELSE ValidatorValidate(validators[idx], idx, p,
                           ValidatorsLoop_Reversed(validators, idx + 1, p, r))

\* for _, validator := range attributeWithValidators.GetValidators()
RECURSIVE ValidatorsLoop(_, _, _, _)
ValidatorsLoop(validators, idx, p, r) ==
    IF idx > Len(validators) THEN r
    ELSE ValidatorsLoop(validators, idx + 1, p,
                        ValidatorValidate(validators[idx], idx, p, r))

\* The order in which range visits the keys D of a map in this pass
RangeOrder(ord, D) == SelectSeq(ord, LAMBDA x : x \in D)

NestedResponse_Fresh(r) == [Diagnostics |-> <<>>, log |-> r.log]

\* nestedAttrResp := &tfsdk.ValidateAttributeResponse{Diagnostics: resp.Diagnostics}
NestedResponse(r) == [Diagnostics |-> r.Diagnostics, log |-> r.log]

\* resp.Diagnostics = nestedAttrResp.Diagnostics
CopyBack(r, nestedAttrResp) ==
    [r EXCEPT !.Diagnostics = nestedAttrResp.Diagnostics, !.log = nestedAttrResp.log]

ReadOnlyCheck_IgnoresOptional(a, attributeConfig, p, r) ==
    IF a.Computed /\ ~IsNull(attributeConfig)
    THEN AddAttributeError(r, p, "Invalid Configuration for Read-Only Attribute")
    ELSE r

\* if a.IsComputed() && !a.IsOptional() && !attributeConfig.IsNull()
ReadOnlyCheck(a, attributeConfig, p, r) ==
    IF a.Computed /\ ~a.Optional /\ ~IsNull(attributeConfig)
    THEN AddAttributeError(r, p, "Invalid Configuration for Read-Only Attribute")
    ELSE r

RequiredCheck_OnUnknown(a, attributeConfig, p, r) ==
    IF a.Required /\ IsUnknown(attributeConfig)
    THEN AddAttributeError(r, p, "Missing Configuration for Required Attribute")
    ELSE r

\* if a.IsRequired() && attributeConfig.IsNull()
RequiredCheck(a, attributeConfig, p, r) ==
    IF a.Required /\ IsNull(attributeConfig)
    THEN AddAttributeError(r, p, "Missing Configuration for Required Attribute")
    ELSE r

\* Show deprecation warnings only for known values.
DeprecationCheck(a, attributeConfig, p, r) ==
    IF a.DeprecationMessage # "" /\ ~IsNull(attributeConfig) /\ ~IsUnknown(attributeConfig)
    THEN AddAttributeWarning(r, p, "Attribute Deprecated")
    ELSE r

\* The value converted by ToListValue, ToSetValue, ToMapValue or ToObjectValue
ToNestedValue(a, attributeConfig, p) ==
    [value |-> attributeConfig,
     diags |-> IF a.ConvError THEN <<Diag("error", p, "Value Conversion Error", 0)>>
               ELSE <<>>]

ReturnsAfterConversion_NewErrorsOnly(r, diags) == HasError(diags)

\* if resp.Diagnostics.HasError() { return }, after the conversion
ReturnsAfterConversion(r, diags) == HasError(r.Diagnostics)

InvalidValueType_Warning(r, p) ==
    AddAttributeWarning(r, p, "Attribute Validation Error Invalid Value Type")

\* the value does not implement the Valuable interface of the nesting mode
InvalidValueType(r, p) ==
    AddAttributeError(r, p, "Attribute Validation Error Invalid Value Type")

UnsupportedNestingMode_Silent(r, p) == r

\* default: the nesting mode is none of List, Set, Map, Single
UnsupportedNestingMode(r, p) == AddAttributeError(r, p, "Attribute Validation Error")

MissingFlags_Unchecked(a) == FALSE

\* if !a.IsRequired() && !a.IsOptional() && !a.IsComputed()
MissingFlags(a) == ~a.Required /\ ~a.Optional /\ ~a.Computed

AtListIndex_OneBased(p, idx) == Append(p, ElementKeyInt(idx + 1))

\* req.AttributePath.AtListIndex(idx)
AtListIndex(p, idx) == Append(p, ElementKeyInt(idx))

RECURSIVE AttributeValidate(_, _, _, _)
RECURSIVE NestedAttributesLoop(_, _, _, _, _, _)
RECURSIVE ListElementsLoop(_, _, _, _, _, _)
RECURSIVE SetElementsLoop(_, _, _, _, _)
RECURSIVE MapElementsLoop(_, _, _, _, _)

\* for nestedName, nestedAttr := range nestedAttribute.GetAttributes() { ... }
NestedAttributesLoop(attrs, ord, elemPath, config, it, r) ==
    IF ord = <<>> THEN r
    ELSE LET nestedName == Head(ord)
             nestedAttrReq == [AttributePath |-> Append(elemPath, AttributeName(nestedName)),
                               Config |-> config]
         IN NestedAttributesLoop(
                attrs, Tail(ord), elemPath, config, it,
                CopyBack(r, AttributeValidate(attrs[nestedName], nestedAttrReq, it,
                                              NestedResponse(r))))

\* for idx := range l.Elements() { ... }
ListElementsLoop(a, req, idx, n, it, r) ==
    IF idx >= n THEN r
    ELSE ListElementsLoop(
             a, req, idx + 1, n, it,
             NestedAttributesLoop(GetAttributes(a),
                                  RangeOrder(it.names, DOMAIN GetAttributes(a)),
                                  AtListIndex(req.AttributePath, idx),
                                  req.Config, it, r))

\* for _, value := range s.Elements() { ... }
SetElementsLoop(a, req, elems, it, r) ==
    IF elems = <<>> THEN r
    ELSE SetElementsLoop(
             a, req, Tail(elems), it,
             NestedAttributesLoop(GetAttributes(a),
                                  RangeOrder(it.names, DOMAIN GetAttributes(a)),
                                  Append(req.AttributePath, SetStep(Head(elems))),
                                  req.Config, it, r))

\* for key := range m.Elements() { ... }
MapElementsLoop(a, req, keys, it, r) ==
    IF keys = <<>> THEN r
    ELSE MapElementsLoop(
             a, req, Tail(keys), it,
             NestedAttributesLoop(GetAttributes(a),
                                  RangeOrder(it.names, DOMAIN GetAttributes(a)),
                                  Append(req.AttributePath, ElementKeyString(Head(keys))),
                                  req.Config, it, r))

\* The body of a case of the switch once the value has the capability
NestedCase(a, req, it, r) ==
    LET conv == ToNestedValue(a, req.AttributeConfig, req.AttributePath)
        appended == DiagnosticsAppend(r, conv.diags)
    IN IF ReturnsAfterConversion(appended, conv.diags) THEN appended
       ELSE CASE a.mode = "List" ->
                    ListElementsLoop(a, req, 0, Len(Elements(conv.value)), it, appended)
              [] a.mode = "Set" ->
                    SetElementsLoop(a, req, Elements(conv.value), it, appended)
              [] a.mode = "Map" ->
                    MapElementsLoop(a, req,
                                    RangeOrder(it.keys, DOMAIN Elements(conv.value)),
                                    it, appended)
              [] a.mode = "Single" ->
                    IF IsNull(conv.value) \/ IsUnknown(conv.value) THEN appended
                    ELSE NestedAttributesLoop(
                             GetAttributes(a),
                             RangeOrder(it.names, DOMAIN GetAttributes(a)),
                             req.AttributePath, req.Config, it, appended)

\* AttributeValidateNestedAttributes, up to its return
NestedAttributesSwitch(a, req, it, r) ==
    LET entered == Logged(r, "AttributeValidateNestedAttributes", req.AttributePath, 0)
    IN IF ~(a.kind = "Nested" \/ a.Tfsdk) THEN entered
       ELSE IF a.Tfsdk /\ ModeOf(a) = "Unknown" THEN entered
       ELSE IF ModeOf(a) \in {"List", "Set", "Map", "Single"}
            THEN IF ~a.Valuable THEN InvalidValueType(entered, req.AttributePath)
                 ELSE NestedCase(a, req, it, entered)
            ELSE UnsupportedNestingMode(entered, req.AttributePath)

\* AttributeValidateNestedAttributes
AttributeValidateNestedAttributes(a, req, it, r) ==
    Logged(NestedAttributesSwitch(a, req, it, r),
           "AttributeValidateNestedAttributes returns", req.AttributePath, 0)

\* AttributeValidate, from the read of the configuration value on
AttributeValidateValue(a, req, it, r) ==
    LET p == req.AttributePath
        got == ValueAtPath(req.Config, p, a)
        read == DiagnosticsAppend(Logged(r, "ValueAtPath", p, 0), got.diags)
    IN IF HasError(got.diags) THEN read
       ELSE LET attributeConfig == got.value
                checked == RequiredCheck(a, attributeConfig, p,
                               ReadOnlyCheck(a, attributeConfig, p, read))
                validated == ValidatorsLoop(a.Validators, 1, p, checked)
                nested == AttributeValidateNestedAttributes(
                              a, [AttributePath |-> p, Config |-> req.Config,
                                  AttributeConfig |-> attributeConfig],
                              it, validated)
            IN DeprecationCheck(a, attributeConfig, p, nested)

\* AttributeValidate, up to its return
AttributeDefinitionChecks(a, req, it, r) ==
    LET p == req.AttributePath
        entered == Logged(r, "AttributeValidate", p, 0)
    IN IF a.Tfsdk /\ a.kind = "Leaf" /\ a.type = NilType
       THEN AddAttributeError(entered, p, "Invalid Attribute Definition")
       ELSE IF a.Tfsdk /\ DOMAIN GetAttributes(a) # {} /\ ModeOf(a) = "Unknown"
            THEN AddAttributeError(entered, p, "Invalid Attribute Definition")
            ELSE IF MissingFlags(a)
                 THEN AddAttributeError(entered, p, "Invalid Attribute Definition")
                 ELSE AttributeValidateValue(a, req, it, entered)

\* AttributeValidate
AttributeValidate(a, req, it, r) ==
    Logged(AttributeDefinitionChecks(a, req, it, r),
           "AttributeValidate returns", req.AttributePath, 0)

(***************************************************************************)
(* Specification SpecValidate: one validation pass over the attribute "a"  *)
(* of a configuration.                                                     *)
(***************************************************************************)
ValidatedLeaf(t, req, opt, comp, dep, validators, tfsdk) ==
    [kind |-> "Leaf", type |-> t,
     Required |-> req, Optional |-> opt, Computed |-> comp,
     DeprecationMessage |-> dep, Validators |-> validators, Tfsdk |-> tfsdk,
     Valuable |-> TRUE, ConvError |-> FALSE]

ValidatedNested(mode, attrs, req, opt, comp, dep, validators, tfsdk, valuable, convError) ==
    [kind |-> "Nested", mode |-> mode, NestedObject |-> NestedObject(attrs, NilType),
     Required |-> req, Optional |-> opt, Computed |-> comp,
     DeprecationMessage |-> dep, Validators |-> validators, Tfsdk |-> tfsdk,
     Valuable |-> valuable, ConvError |-> convError]

OptionalNested(mode, attrs) ==
    ValidatedNested(mode, attrs, FALSE, TRUE, FALSE, "", <<>>, FALSE, TRUE, FALSE)

VRequired == ValidatedLeaf(BoolType, TRUE, FALSE, FALSE, "", <<>>, FALSE)
VOptional == ValidatedLeaf(BoolType, FALSE, TRUE, FALSE, "", <<>>, FALSE)
VNoFlags == ValidatedLeaf(BoolType, FALSE, FALSE, FALSE, "old", <<"error">>, FALSE)
VFailing == ValidatedLeaf(BoolType, FALSE, TRUE, FALSE, "", <<"error">>, FALSE)
VDeprecated ==
    ValidatedLeaf(BoolType, FALSE, TRUE, TRUE, "old", <<"warning", "none", "error">>, FALSE)
VTfsdkRequiredNoType == ValidatedLeaf(NilType, TRUE, FALSE, FALSE, "", <<>>, TRUE)
VList == OptionalNested("List", "a" :> VRequired @@ "b" :> VFailing)
VMap == OptionalNested("Map", "a" :> VRequired @@ "b" :> VDeprecated)
VSingle == OptionalNested("Single", "a" :> VRequired @@ "b" :> VOptional)
VSingleDeep ==
    OptionalNested("Single", "a" :> VRequired @@ "b" :> OptionalNested("Single", "a" :> VRequired))
VListDeep ==
    OptionalNested("List", "a" :> OptionalNested("Single", "b" :> VRequired) @@ "b" :> VNoFlags)
VListComputed ==
    ValidatedNested("List", "a" :> VOptional, FALSE, FALSE, TRUE, "", <<>>, FALSE, TRUE, FALSE)
VOtherMode == OptionalNested("Other", "a" :> VRequired)
VOtherModeInside == OptionalNested("Single", "a" :> VOtherMode @@ "b" :> VRequired)
VTfsdkUnknownMode ==
    ValidatedNested("Unknown", "a" :> VRequired, FALSE, TRUE, FALSE, "", <<>>,
                    TRUE, TRUE, FALSE)
VMapNotValuable ==
    ValidatedNested("Map", "a" :> VRequired, FALSE, TRUE, FALSE, "", <<>>, FALSE, FALSE, FALSE)
VSetConvError ==
    ValidatedNested("Set", "a" :> VRequired, FALSE, TRUE, FALSE, "", <<>>, FALSE, TRUE, TRUE)
ValidatedAttributes ==
    {VRequired, VOptional, VNoFlags, VFailing, VDeprecated, VTfsdkRequiredNoType,
     VList, VMap, VSingle, VSingleDeep, VListDeep, VListComputed,
     VOtherMode, VOtherModeInside, VTfsdkUnknownMode, VMapNotValuable, VSetConvError,
     ValidatedLeaf(BoolType, FALSE, FALSE, TRUE, "", <<>>, FALSE),
     ValidatedLeaf(BoolType, FALSE, FALSE, TRUE, "old", <<"warning", "error">>, FALSE),
     ValidatedLeaf(NilType, FALSE, FALSE, TRUE, "", <<>>, TRUE),
     ValidatedLeaf(NilType, FALSE, TRUE, FALSE, "", <<>>, TRUE),
     ValidatedLeaf(BoolType, FALSE, TRUE, FALSE, "old", <<"warning">>, TRUE),
     OptionalNested("Set", "a" :> VRequired),
     ValidatedNested("Single", "a" :> VOptional, FALSE, TRUE, FALSE, "", <<"error">>,
         FALSE, TRUE, FALSE),
     ValidatedNested("Single", "a" :> VRequired, TRUE, FALSE, FALSE, "old",
         <<"warning">>, FALSE, TRUE, FALSE),
     ValidatedNested("List", "a" :> VRequired, FALSE, TRUE, FALSE, "", <<>>, FALSE,
         FALSE, FALSE),
     ValidatedNested("Single", "a" :> VRequired, FALSE, TRUE, FALSE, "", <<>>, FALSE,
         TRUE, TRUE)}

\* The configuration values an attribute can be given
RECURSIVE ValuesFor(_)
ObjectsFor(attrs) ==
    {ObjectValueOf("known", f) :
        f \in {g \in [DOMAIN attrs -> UNION {ValuesFor(attrs[nm]) : nm \in DOMAIN attrs}] :
                  \A nm \in DOMAIN attrs : g[nm] \in ValuesFor(attrs[nm])}}

ElementsFor(a) == ObjectsFor(GetAttributes(a)) \cup {ValueOfKind("Object", "null")}

SequencesOf(S) == UNION {[1..n -> S] : n \in 0..MaxElems}

ValuesFor(a) ==
    {ValueOfKind(ValueKindOf(a), "null"), ValueOfKind(ValueKindOf(a), "unknown")} \cup
    CASE a.kind = "Leaf" -> {BoolValueOf("known", TRUE)}
      [] a.kind = "Nested" /\ a.mode = "List" ->
            {ListValueOf("known", s) : s \in SequencesOf(ElementsFor(a))}
      [] a.kind = "Nested" /\ a.mode = "Set" ->
            {SetValueOf("known", s) :
                s \in {t \in SequencesOf(ElementsFor(a)) :
                          \A i, j \in 1..Len(t) : i # j => t[i] # t[j]}}
      [] a.kind = "Nested" /\ a.mode = "Map" ->
            {MapValueOf("known", m) :
                m \in UNION {[K -> ElementsFor(a)] : K \in SUBSET MapKeys}}
      [] OTHER -> ObjectsFor(GetAttributes(a))

\* A value of another type than the attribute's
Mistyped == StringValueOf("known", "oops")

RootPath == <<AttributeName("a")>>

\* What validation of earlier attributes left in the accumulator
PriorDiagnostics ==
    {<<>>,
     <<Diag("warning", <<AttributeName("z")>>, "Earlier", 0)>>,
     <<Diag("error", <<AttributeName("z")>>, "Earlier", 0)>>}

InitValidate ==
    /\ SchemaIdle
    /\ ObjIdle
    /\ vattr \in ValidatedAttributes
    /\ vconfig \in {ObjectValueOf("known", "a" :> v) : v \in ValuesFor(vattr) \cup {Mistyped}}
    /\ vprior \in PriorDiagnostics
    /\ viter \in {[names |-> ns, keys |-> ks] : ns \in Orders(Names), ks \in Orders(MapKeys)}
    /\ vresp = Pending
    /\ BoolIdle

CallAttributeValidate ==
    /\ vresp = Pending
    /\ vresp' = AttributeValidate(vattr, [AttributePath |-> RootPath, Config |-> vconfig],
                                  viter, [Diagnostics |-> vprior, log |-> <<>>])
    /\ UNCHANGED <<vattr, vconfig, vprior, viter>>
    /\ UNCHANGED schemaVars
    /\ UNCHANGED objVars
    /\ UNCHANGED boolVars

\* AttributeValidateNestedAttributes called by itself, with the value the
\* configuration holds for the attribute
CallAttributeValidateNestedAttributes ==
    /\ vresp = Pending
    /\ ValueAtPath(vconfig, RootPath, vattr).diags = <<>>
    /\ vresp' = AttributeValidateNestedAttributes(
                     vattr,
                     [AttributePath |-> RootPath, Config |-> vconfig,
                      AttributeConfig |-> ValueAtPath(vconfig, RootPath, vattr).value],
                     viter, [Diagnostics |-> vprior, log |-> <<>>])
    /\ UNCHANGED <<vattr, vconfig, vprior, viter>>
    /\ UNCHANGED schemaVars
    /\ UNCHANGED objVars
    /\ UNCHANGED boolVars

NextValidate ==
    \/ CallAttributeValidate
    \/ CallAttributeValidateNestedAttributes

SpecValidate == InitValidate /\ [][NextValidate]_vars

(***************************************************************************)
(* Properties of attribute validation, checked under SpecValidate.         *)
(***************************************************************************)
Validated == vresp # Pending

\* The diagnostics the pass added to the ones it started with
NewDiagnostics == SubSeq(vresp.Diagnostics, Len(vprior) + 1, Len(vresp.Diagnostics))

DiagnosticsAt(p) == SelectSeq(NewDiagnostics, LAMBDA d : d.path = p)

LogOf(ev) == SelectSeq(vresp.log, LAMBDA e : e.ev = ev)

\* Number of times the log records ev at path p
Count(ev, p) == Len(SelectSeq(vresp.log, LAMBDA e : e.ev = ev /\ e.path = p))

IsStrictPrefix(p, q) == Len(p) < Len(q) /\ SubSeq(q, 1, Len(p)) = p

\* The declared attribute a validation path below attribute a leads to
RECURSIVE AttributeUnder(_, _)
AttributeUnder(a, rel) ==
    IF rel = <<>> THEN a
    ELSE IF Head(rel).kind = "AttributeName"
         THEN AttributeUnder(GetAttributes(a)[Head(rel).s], Tail(rel))
         ELSE AttributeUnder(a, Tail(rel))

AttributeOf(p) == AttributeUnder(vattr, Tail(p))

ConfigOf(p) == ValueAtPath(vconfig, p, AttributeOf(p))

\* The configuration holds no value, or a null one, at path p
ConfigIsNull(p) ==
    LET raw == TerraformValueAtPath(vconfig, p)
    IN ~raw.ok \/ raw.value.st = "null"

\* The paths AttributeValidate was called with, in call order
ValidatedPaths == [i \in 1..Len(LogOf("AttributeValidate")) |-> LogOf("AttributeValidate")[i].path]

WasValidated(p) == Count("AttributeValidate", p) > 0

\* C11: an attribute that is neither Required, Optional nor Computed gets
\* exactly one 'Invalid Attribute Definition' error at its path, and its
\* validation returns before the configuration value is read: no validator
\* runs, no nested attribute is validated, no other diagnostic lands at it.
C11_MissingFlagsStopsValidation ==
    Validated =>
        \A i \in 1..Len(ValidatedPaths) :
            LET p == ValidatedPaths[i]
                a == AttributeOf(p)
            IN (~a.Required /\ ~a.Optional /\ ~a.Computed) =>
                   /\ DiagnosticsAt(p) = <<Diag("error", p, "Invalid Attribute Definition", 0)>>
                   /\ Count("ValueAtPath", p) = 0
                   /\ Count("Validate", p) = 0
                   /\ Count("AttributeValidateNestedAttributes", p) = 0
                   /\ \A j \in 1..Len(vresp.log) : ~IsStrictPrefix(p, vresp.log[j].path)

\* a flagless attribute with validators and a deprecation message was
\* validated, at the top and inside a list element
C11_Witness ==
    /\ Validated
    /\ vattr = VListDeep
    /\ \E i \in 1..Len(ValidatedPaths) :
           /\ AttributeOf(ValidatedPaths[i]) = VNoFlags
           /\ Len(ValidatedPaths[i]) = 3

C11_WitnessTop == Validated /\ vattr = VNoFlags /\ ~ConfigIsNull(RootPath)

MissingRequired(p) == Diag("error", p, "Missing Configuration for Required Attribute", 0)

Occurrences(ds, d) == Len(SelectSeq(ds, LAMBDA x : x = d))

\* C12 as stated: validating a Required attribute whose configuration value
\* is null appends exactly one 'Missing Configuration for Required Attribute'
\* error at the attribute's own path, and none when the value is not null.
C12_RequiredNullGetsOneError ==
    Validated =>
        \A i \in 1..Len(ValidatedPaths) :
            LET p == ValidatedPaths[i]
            IN AttributeOf(p).Required =>
                   Occurrences(NewDiagnostics, MissingRequired(p)) =
                       IF ConfigIsNull(p) THEN 1 ELSE 0

\* C12, amended: the same, for a Required attribute whose definition passed
\* the checks that precede the read of the configuration value (a
\* tfsdk.Attribute without a type, or with nested attributes and no nesting
\* mode, is rejected before its value is looked at and gets no such error).
C12_RequiredNullGetsOneErrorOnceRead ==
    Validated =>
        \A i \in 1..Len(ValidatedPaths) :
            LET p == ValidatedPaths[i]
            IN (AttributeOf(p).Required /\ Count("ValueAtPath", p) = 1) =>
                   Occurrences(NewDiagnostics, MissingRequired(p)) =
                       IF ConfigIsNull(p) THEN 1 ELSE 0

\* a Required attribute nested in a list was validated once with a null and
\* once with a known value
C12_Witness ==
    /\ Validated
    /\ vattr = VList
    /\ \E i, j \in 1..Len(ValidatedPaths) :
           /\ AttributeOf(ValidatedPaths[i]).Required
           /\ AttributeOf(ValidatedPaths[j]).Required
           /\ Count("ValueAtPath", ValidatedPaths[i]) = 1
           /\ Count("ValueAtPath", ValidatedPaths[j]) = 1
           /\ ConfigIsNull(ValidatedPaths[i])
           /\ ~ConfigIsNull(ValidatedPaths[j])
           /\ Occurrences(NewDiagnostics, MissingRequired(ValidatedPaths[i])) = 1

\* The positions of the log at which ev is recorded at path p
LogPositions(ev, p) ==
    {i \in 1..Len(vresp.log) : vresp.log[i].ev = ev /\ vresp.log[i].path = p}

\* The paths at which AttributeValidateNestedAttributes went into its switch
\* for an attribute of the given nesting mode
NestedPaths(mode) ==
    {vresp.log[i].path : i \in {j \in 1..Len(vresp.log) :
        /\ vresp.log[j].ev = "AttributeValidateNestedAttributes"
        /\ AttributeOf(vresp.log[j].path).kind = "Nested"
        /\ AttributeOf(vresp.log[j].path).mode = mode}}

\* The diagnostics held when the log entry after position i was written
SnapshotAfter(i) == vresp.log[i + 1].diags

ErrorsOf(ds) == SelectSeq(ds, LAMBDA d : d.severity = "error")

AtName(p, nm) == Append(p, AttributeName(nm))

\* C13: AttributeValidateNestedAttributes on a Single nested attribute whose
\* object is null or unknown validates no nested attribute and appends no
\* child diagnostic and no error; when the object is known it calls
\* AttributeValidate exactly once per declared nested attribute, with the
\* path parent.AtName(name).
C13_SingleDescendsIffKnown ==
    Validated =>
        \A p \in NestedPaths("Single") :
            LET a == AttributeOf(p)
                o == ConfigOf(p).value
            IN (a.Valuable /\ ~a.ConvError) =>
                   IF IsNull(o) \/ IsUnknown(o)
                   THEN /\ \A j \in 1..Len(vresp.log) : ~IsStrictPrefix(p, vresp.log[j].path)
                        /\ \A j \in 1..Len(NewDiagnostics) :
                               ~IsStrictPrefix(p, NewDiagnostics[j].path)
                        /\ \A i \in LogPositions("AttributeValidateNestedAttributes", p) :
                               ErrorsOf(SnapshotAfter(i)) = ErrorsOf(vresp.log[i].diags)
                   ELSE /\ \A nm \in DOMAIN GetAttributes(a) :
                               Count("AttributeValidate", AtName(p, nm)) = 1
                        /\ \A j \in 1..Len(ValidatedPaths) :
                               (/\ IsStrictPrefix(p, ValidatedPaths[j])
                                /\ Len(ValidatedPaths[j]) = Len(p) + 1)
                               => \E nm \in DOMAIN GetAttributes(a) :
                                      ValidatedPaths[j] = AtName(p, nm)

\* the part of C13 that holds: a known object whose nested attributes are all
\* validated once, and a null object under which nothing is validated
C13_DescentWitness ==
    /\ Validated
    /\ vattr = VSingle
    /\ RootPath \in NestedPaths("Single")
    /\ ConfigOf(RootPath).value.st = "known"
    /\ \A nm \in {"a", "b"} : Count("AttributeValidate", AtName(RootPath, nm)) = 1

\* a known object is not descended into when the accumulator holds an error
C13_SkippedWitness ==
    /\ Validated
    /\ vattr = VSingle
    /\ RootPath \in NestedPaths("Single")
    /\ ConfigOf(RootPath).value.st = "known"
    /\ HasError(vprior)
    /\ \A nm \in {"a", "b"} : Count("AttributeValidate", AtName(RootPath, nm)) = 0

ElementIndex(p, q) == q[Len(p) + 1].n

\* C14: under a List nested attribute with n elements every child validation
\* has the path parent + ListElementIndex(i) + child name with 0 <= i < n
\* and a declared child name; the elements are visited in ascending order of
\* index and none is left out once the loop runs; every diagnostic of
\* element i is in the accumulator before any diagnostic of element j > i.
C14_ListElementsInOrder ==
    Validated =>
        \A p \in NestedPaths("List") :
            LET a == AttributeOf(p)
                n == Len(Elements(ConfigOf(p).value))
                below == SelectSeq(ValidatedPaths,
                                   LAMBDA q : IsStrictPrefix(p, q) /\ Len(q) = Len(p) + 2)
                diags == SelectSeq(NewDiagnostics, LAMBDA d : IsStrictPrefix(p, d.path))
            IN /\ \A j \in 1..Len(below) :
                      \E i \in 0..(n - 1), nm \in DOMAIN GetAttributes(a) :
                          below[j] = AtName(Append(p, ElementKeyInt(i)), nm)
               /\ \A j, k \in 1..Len(below) :
                      j < k => ElementIndex(p, below[j]) <= ElementIndex(p, below[k])
               /\ below # <<>> =>
                      \A i \in 0..(n - 1) : \E j \in 1..Len(below) :
                          ElementIndex(p, below[j]) = i
               /\ \A j \in 1..Len(diags) :
                      /\ diags[j].path[Len(p) + 1].kind = "ElementKeyInt"
                      /\ ElementIndex(p, diags[j].path) \in 0..(n - 1)
               /\ \A j, k \in 1..Len(diags) :
                      j < k => ElementIndex(p, diags[j].path) <= ElementIndex(p, diags[k].path)

\* a list of MaxElems elements whose first and last element both produced
\* diagnostics
C14_Witness ==
    /\ Validated
    /\ vattr = VList
    /\ RootPath \in NestedPaths("List")
    /\ Len(Elements(ConfigOf(RootPath).value)) = MaxElems
    /\ \E j, k \in 1..Len(NewDiagnostics) :
           /\ j < k
           /\ IsStrictPrefix(RootPath, NewDiagnostics[j].path)
           /\ IsStrictPrefix(RootPath, NewDiagnostics[k].path)
           /\ ElementIndex(RootPath, NewDiagnostics[j].path) = 0
           /\ ElementIndex(RootPath, NewDiagnostics[k].path) = MaxElems - 1

\* The path steps of the elements of a known or empty collection value
ElementSteps(v) ==
    CASE v.vk = "List" -> {ElementKeyInt(i - 1) : i \in 1..Len(Elements(v))}
      [] v.vk = "Set" -> {SetStep(Elements(v)[i]) : i \in 1..Len(Elements(v))}
      [] v.vk = "Map" -> {ElementKeyString(key) : key \in DOMAIN Elements(v)}

\* The validations of nested attributes directly below the elements of p
ChildValidations(p) ==
    SelectSeq(ValidatedPaths, LAMBDA q : IsStrictPrefix(p, q) /\ Len(q) = Len(p) + 2)

CollectionPaths == NestedPaths("List") \cup NestedPaths("Set") \cup NestedPaths("Map")

Converts(a) == a.Valuable /\ ~a.ConvError

Covered(p) ==
    LET a == AttributeOf(p)
        steps == ElementSteps(ConfigOf(p).value)
    IN /\ \A step \in steps : \A nm \in DOMAIN GetAttributes(a) :
              Count("AttributeValidate", AtName(Append(p, step), nm)) = 1
       /\ Len(ChildValidations(p)) = Cardinality(steps) * Cardinality(DOMAIN GetAttributes(a))

\* C15: for a List, Set or Map nested attribute whose value converts without
\* error to n elements and whose nested object declares k attributes,
\* AttributeValidate is called exactly once per pair of an element and a
\* declared attribute, n*k calls in all, with the path parent + element step
\* + attribute name; every key of a Map is covered.
C15_EveryElementEveryAttribute ==
    Validated => \A p \in CollectionPaths : Converts(AttributeOf(p)) => Covered(p)

\* the coverage C15 states is there whenever the accumulator holds no error
\* by the time the value has been converted
C15_CoveredWithoutEarlierError ==
    Validated =>
        \A p \in CollectionPaths :
            (/\ Converts(AttributeOf(p))
             /\ \A i \in LogPositions("AttributeValidateNestedAttributes", p) :
                    ~HasError(vresp.log[i].diags))
            => Covered(p)

\* a map with both keys set whose nested attributes were validated for each
C15_CoveredWitness ==
    /\ Validated
    /\ vattr = VMap
    /\ RootPath \in NestedPaths("Map")
    /\ DOMAIN Elements(ConfigOf(RootPath).value) = MapKeys
    /\ Len(ChildValidations(RootPath)) = 4

\* a read-only list with elements: its own error keeps every element from
\* being validated
C15_SkippedWitness ==
    /\ Validated
    /\ vattr = VListComputed
    /\ vprior = <<>>
    /\ RootPath \in NestedPaths("List")
    /\ Len(Elements(ConfigOf(RootPath).value)) = MaxElems
    /\ ChildValidations(RootPath) = <<>>

\* Every nested attribute of the value at p was validated: once per element
\* of a collection, once for a known object
Descended(p) ==
    IF p \in NestedPaths("Single")
    THEN ConfigOf(p).value.st = "known" =>
             \A nm \in DOMAIN GetAttributes(AttributeOf(p)) :
                 Count("AttributeValidate", AtName(p, nm)) = 1
    ELSE Covered(p)

DescendingPaths == CollectionPaths \cup NestedPaths("Single")

\* C16: an error produced while validating one sibling attribute or one
\* collection element never stops or shortens the validation of another, at
\* any depth: a nested attribute that converts and has no error of its own
\* has its nested attributes validated whatever errors the accumulator holds
\* for other attributes and elements.
C16_ErrorsStayInTheirSubtree ==
    Validated =>
        \A p \in DescendingPaths :
            (Converts(AttributeOf(p)) /\ ~HasError(DiagnosticsAt(p))) => Descended(p)

\* the nested attributes of b, a later sibling, are not validated after the
\* earlier sibling a has got its error
C16_LaterSiblingSkipped ==
    /\ Validated
    /\ vattr = VSingleDeep
    /\ vprior = <<>>
    /\ AtName(RootPath, "b") \in NestedPaths("Single")
    /\ ConfigOf(AtName(RootPath, "b")).value.st = "known"
    /\ HasError(DiagnosticsAt(AtName(RootPath, "a")))
    /\ ~HasError(DiagnosticsAt(AtName(RootPath, "b")))
    /\ Count("AttributeValidate", AtName(AtName(RootPath, "b"), "a")) = 0

\* they are when range happens to visit b before a
C16_EarlierSiblingDescended ==
    /\ Validated
    /\ vattr = VSingleDeep
    /\ vprior = <<>>
    /\ HasError(DiagnosticsAt(AtName(RootPath, "a")))
    /\ Count("AttributeValidate", AtName(AtName(RootPath, "b"), "a")) = 1

InvalidValueTypeAt(p) ==
    Diag("error", p, "Attribute Validation Error Invalid Value Type", 0)

NoneValidatedBelow(p) ==
    \A j \in 1..Len(vresp.log) : ~IsStrictPrefix(p, vresp.log[j].path)

\* C17: a nested attribute whose value lacks the capability of its nesting
\* mode gets exactly one 'Attribute Validation Error Invalid Value Type'
\* error at its path and none of its nested attributes is validated; when the
\* capability is there and the conversion returns error diagnostics, these
\* are appended and none of its nested attributes is validated.
C17_NoDescentWithoutConversion ==
    Validated =>
        \A p \in DescendingPaths :
            LET a == AttributeOf(p)
            IN /\ ~a.Valuable =>
                      /\ Occurrences(NewDiagnostics, InvalidValueTypeAt(p)) = 1
                      /\ \A i \in LogPositions("AttributeValidateNestedAttributes", p) :
                             SnapshotAfter(i) = Append(vresp.log[i].diags, InvalidValueTypeAt(p))
                      /\ NoneValidatedBelow(p)
               /\ (a.Valuable /\ a.ConvError) =>
                      /\ \A i \in LogPositions("AttributeValidateNestedAttributes", p) :
                             SnapshotAfter(i) =
                                 vresp.log[i].diags \o ToNestedValue(a, ConfigOf(p).value, p).diags
                      /\ Occurrences(NewDiagnostics, InvalidValueTypeAt(p)) = 0
                      /\ NoneValidatedBelow(p)

\* a map with two elements whose value is no MapValuable
C17_Witness ==
    /\ Validated
    /\ vattr = VMapNotValuable
    /\ RootPath \in NestedPaths("Map")
    /\ DOMAIN Elements(ConfigOf(RootPath).value) = MapKeys
    /\ vprior = <<>>
    /\ NewDiagnostics = <<InvalidValueTypeAt(RootPath)>>

\* a set with elements whose conversion fails
C17_WitnessConversion ==
    /\ Validated
    /\ vattr = VSetConvError
    /\ RootPath \in NestedPaths("Set")
    /\ Len(Elements(ConfigOf(RootPath).value)) = MaxElems
    /\ HasError(NewDiagnostics)

UnsupportedModeAt(p) == Diag("error", p, "Attribute Validation Error", 0)

\* The paths of nested attributes with a nesting mode outside the four
OtherModePaths ==
    {vresp.log[i].path : i \in {j \in 1..Len(vresp.log) :
        /\ vresp.log[j].ev = "AttributeValidateNestedAttributes"
        /\ AttributeOf(vresp.log[j].path).kind = "Nested"
        /\ AttributeOf(vresp.log[j].path).mode \notin {"List", "Set", "Map", "Single"}}}

ParentPath(p) == SubSeq(p, 1, Len(p) - 1)

\* one error, no nested attribute validated, the siblings validated
RejectedAlone(p) ==
    /\ Occurrences(NewDiagnostics, UnsupportedModeAt(p)) = 1
    /\ \A i \in LogPositions("AttributeValidateNestedAttributes", p) :
           SnapshotAfter(i) = Append(vresp.log[i].diags, UnsupportedModeAt(p))
    /\ NoneValidatedBelow(p)
    /\ Len(p) > 1 =>
           \A nm \in DOMAIN GetAttributes(AttributeOf(ParentPath(p))) :
               Count("AttributeValidate", AtName(ParentPath(p), nm)) = 1

\* C18 as stated: for a nested attribute whose nesting mode is none of List,
\* Set, Map, Single, AttributeValidateNestedAttributes appends exactly one
\* 'Attribute Validation Error' error at the attribute's path and validates
\* none of its nested attributes; the attribute's siblings are validated.
C18_UnsupportedModeRejected ==
    Validated => \A p \in OtherModePaths : RejectedAlone(p)

\* C18, amended: the same, for a nested attribute that is no tfsdk.Attribute
\* (for a tfsdk.Attribute with nesting mode Unknown the function returns
\* without a diagnostic).
C18_UnsupportedModeRejectedUnlessTfsdk ==
    Validated => \A p \in OtherModePaths : ~AttributeOf(p).Tfsdk => RejectedAlone(p)

\* an attribute of another nesting mode was rejected inside an object, its
\* sibling validated after it
C18_Witness ==
    /\ Validated
    /\ vattr = VOtherModeInside
    /\ viter.names = <<"a", "b">>
    /\ AtName(RootPath, "a") \in OtherModePaths
    /\ Occurrences(NewDiagnostics, UnsupportedModeAt(AtName(RootPath, "a"))) = 1
    /\ Count("ValueAtPath", AtName(RootPath, "b")) = 1

IsPrefix(ds, es) == Len(ds) <= Len(es) /\ SubSeq(es, 1, Len(ds)) = ds

\* C19: the accumulator is append-only throughout a pass: whenever
\* AttributeValidate or AttributeValidateNestedAttributes is called, the
\* diagnostics held before the call are a prefix of those held when it
\* returns, nested responses included; so are the diagnostics the pass
\* started with of every later holding.
C19_AppendOnly ==
    Validated =>
        /\ \A i \in 1..Len(vresp.log) :
               /\ IsPrefix(vprior, vresp.log[i].diags)
               /\ IsPrefix(vresp.log[i].diags, vresp.Diagnostics)
               /\ \A j \in i..Len(vresp.log) :
                      IsPrefix(vresp.log[i].diags, vresp.log[j].diags)
        /\ \A i \in 1..Len(vresp.log) :
               \A ev \in {"AttributeValidate", "AttributeValidateNestedAttributes"} :
                   vresp.log[i].ev = ev =>
                       \E j \in (i + 1)..Len(vresp.log) :
                           /\ vresp.log[j].ev = ev \o " returns"
                           /\ vresp.log[j].path = vresp.log[i].path
                           /\ IsPrefix(vresp.log[i].diags, vresp.log[j].diags)

\* diagnostics from before the pass, from the attribute and from its nested
\* attributes in two list elements are all held at the end
C19_Witness ==
    /\ Validated
    /\ vattr = VMap
    /\ vprior # <<>>
    /\ ~HasError(vprior)
    /\ \E j, k \in 1..Len(NewDiagnostics) :
           /\ IsStrictPrefix(Append(RootPath, ElementKeyString("x")), NewDiagnostics[j].path)
           /\ IsStrictPrefix(Append(RootPath, ElementKeyString("y")), NewDiagnostics[k].path)

(***************************************************************************)
(* basetypes.BoolValue and basetypes.BoolType: the conversion to and from  *)
(* the wire value, and Equal.                                              *)
(*   BoolValue      [vk |-> "Bool", st |-> state, b |-> value]             *)
(*   tftypes.Value  [ty |-> type, known |-> it is no unknown value,        *)
(*                   null |-> it is null, b or s |-> the Go value]         *)
(***************************************************************************)
\* tftypes.NewValue(tftypes.Bool, b), tftypes.NewValue(tftypes.String, str),
\* tftypes.NewValue(ty, nil) and tftypes.NewValue(ty, tftypes.UnknownValue)
NewBoolWire(b) == [ty |-> "Bool", known |-> TRUE, null |-> FALSE, b |-> b]
NewStringWire(str) == [ty |-> "String", known |-> TRUE, null |-> FALSE, s |-> str]
NewNullWire(ty) == [ty |-> ty, known |-> TRUE, null |-> TRUE]
NewUnknownWire(ty) == [ty |-> ty, known |-> FALSE, null |-> FALSE]

BoolValueToTerraformValue_NullAsFalse(v) ==
    CASE v.st = "known" -> [value |-> NewBoolWire(v.b), err |-> NoErr]
      [] v.st = "null" -> [value |-> NewBoolWire(FALSE), err |-> NoErr]
      [] v.st = "unknown" -> [value |-> NewUnknownWire("Bool"), err |-> NoErr]

\* BoolValue.ToTerraformValue
BoolValueToTerraformValue(v) ==
    CASE v.st = "known" -> [value |-> NewBoolWire(v.b), err |-> NoErr]
      [] v.st = "null" -> [value |-> NewNullWire("Bool"), err |-> NoErr]
      [] v.st = "unknown" -> [value |-> NewUnknownWire("Bool"), err |-> NoErr]

\* BoolType.ValueFromTerraform
BoolTypeValueFromTerraform(in) ==
    IF in.ty # "Bool"
    THEN [value |-> Nil,
          err |-> [e |-> "can't unmarshal tftypes." \o in.ty \o " into *bool, expected boolean"]]
    ELSE IF ~in.known THEN [value |-> BoolValueOf("unknown", FALSE), err |-> NoErr]
    ELSE IF in.null THEN [value |-> BoolValueOf("null", FALSE), err |-> NoErr]
    ELSE [value |-> BoolValueOf("known", in.b), err |-> NoErr]

\* BoolValue.Equal
BoolValueEqual(b, candidate) ==
    IF candidate = Nil THEN FALSE
    ELSE IF candidate.vk # "Bool" THEN FALSE
    ELSE IF b.st # candidate.st THEN FALSE
    ELSE IF b.st # "known" THEN TRUE
    ELSE b.b = candidate.b

BoolValues == {BoolValueOf("known", TRUE), BoolValueOf("known", FALSE), BoolValueOf("null", FALSE), BoolValueOf("unknown", FALSE)}

WireValues ==
    {NewBoolWire(TRUE), NewBoolWire(FALSE), NewNullWire("Bool"), NewUnknownWire("Bool"),
     NewStringWire("oops")}

(***************************************************************************)
(* Specification SpecBool: conversions of one BoolValue.                   *)
(***************************************************************************)
InitBool ==
    /\ SchemaIdle
    /\ ObjIdle
    /\ ValIdle
    /\ bvalue \in BoolValues
    /\ bother \in BoolValues \cup {Nil, StringValueOf("known", "true"), StringValueOf("known", "false")}
    /\ bwire \in WireValues
    /\ btf = Pending
    /\ bfrom = Pending
    /\ bback = Pending
    /\ bequal = Pending

CallToTerraformValue ==
    /\ btf = Pending
    /\ btf' = BoolValueToTerraformValue(bvalue)
    /\ UNCHANGED <<bvalue, bother, bwire, bfrom, bback, bequal>>
    /\ UNCHANGED <<schemaVars, objVars, valVars>>

CallValueFromTerraform ==
    /\ bfrom = Pending
    /\ bfrom' = BoolTypeValueFromTerraform(bwire)
    /\ UNCHANGED <<bvalue, bother, bwire, btf, bback, bequal>>
    /\ UNCHANGED <<schemaVars, objVars, valVars>>

\* ValueFromTerraform of the wire value ToTerraformValue returned
CallValueFromTerraformBack ==
    /\ btf # Pending
    /\ btf.err = NoErr
    /\ bback = Pending
    /\ bback' = BoolTypeValueFromTerraform(btf.value)
    /\ UNCHANGED <<bvalue, bother, bwire, btf, bfrom, bequal>>
    /\ UNCHANGED <<schemaVars, objVars, valVars>>

CallBoolEqual ==
    /\ bequal = Pending
    /\ bequal' = Returned(BoolValueEqual(bvalue, bother), NoErr)
    /\ UNCHANGED <<bvalue, bother, bwire, btf, bfrom, bback>>
    /\ UNCHANGED <<schemaVars, objVars, valVars>>

NextBool ==
    \/ CallToTerraformValue
    \/ CallValueFromTerraform
    \/ CallValueFromTerraformBack
    \/ CallBoolEqual

SpecBool == InitBool /\ [][NextBool]_vars

\* C20: for each of the four BoolValues v, ToTerraformValue succeeds and
\* BoolType.ValueFromTerraform of the wire value it returns gives, without
\* error, a value Equal to v that is null exactly when v is and unknown
\* exactly when v is; ValueFromTerraform of a wire value of another type
\* returns an error and no value.
C20_BoolRoundTrip ==
    /\ btf # Pending => (btf.err = NoErr /\ btf.value.ty = "Bool")
    /\ bback # Pending =>
           /\ bback.err = NoErr
           /\ BoolValueEqual(bvalue, bback.value)
           /\ BoolValueEqual(bback.value, bvalue)
           /\ IsNull(bback.value) = IsNull(bvalue)
           /\ IsUnknown(bback.value) = IsUnknown(bvalue)
           /\ bback.value.st \in {"known", "null", "unknown"}
    /\ (bfrom # Pending /\ bwire.ty # "Bool") => (bfrom.err # NoErr /\ bfrom.value = Nil)

\* a null BoolValue came back null, and a String wire value was refused
C20_Witness ==
    /\ bvalue = BoolValueOf("null", FALSE)
    /\ bback # Pending
    /\ IsNull(bback.value)
    /\ bwire = NewStringWire("oops")
    /\ bfrom # Pending
    /\ bfrom.err # NoErr

(***************************************************************************)
(* Properties of the steps of one AttributeValidate call, checked under    *)
(* SpecValidate.                                                           *)
(***************************************************************************)
ReadOnlyAt(p) == Diag("error", p, "Invalid Configuration for Read-Only Attribute", 0)

DeprecatedAt(p) == Diag("warning", p, "Attribute Deprecated", 0)

\* AttributeValidate read the configuration value at p and got one
WasRead(p) == Count("ValueAtPath", p) = 1 /\ ConfigOf(p).diags = <<>>

\* The steps after the read-only check took place for the attribute at p
RemainingStepsRun(p) ==
    LET a == AttributeOf(p)
    IN /\ Count("Validate", p) = Len(a.Validators)
       /\ Count("AttributeValidateNestedAttributes", p) = 1
       /\ Count("AttributeValidate returns", p) = 1
       /\ Occurrences(NewDiagnostics, DeprecatedAt(p)) =
              IF a.DeprecationMessage # "" /\ ConfigOf(p).value.st = "known" THEN 1 ELSE 0

ReadOnlyReported(p) ==
    LET a == AttributeOf(p)
    IN IF a.Computed /\ ~a.Optional /\ ~ConfigIsNull(p)
       THEN Occurrences(NewDiagnostics, ReadOnlyAt(p)) = 1 /\ RemainingStepsRun(p)
       ELSE Occurrences(NewDiagnostics, ReadOnlyAt(p)) = 0

\* C21 as stated: AttributeValidate on an attribute that is Computed, not
\* Optional, and whose configuration value is not null appends exactly one
\* 'Invalid Configuration for Read-Only Attribute' error at the attribute's
\* path and goes on: the validators are invoked and the remaining steps run;
\* no such error when the value is null or the attribute is Optional.
C21_ReadOnlyErrorDoesNotStop ==
    Validated => \A i \in 1..Len(ValidatedPaths) : ReadOnlyReported(ValidatedPaths[i])

\* C21, amended: the same, for an attribute whose definition passed the
\* checks that precede the read of the configuration value and whose value
\* was read without error (otherwise AttributeValidate has returned before
\* the read-only check).
C21_ReadOnlyErrorDoesNotStopOnceRead ==
    Validated =>
        \A i \in 1..Len(ValidatedPaths) :
            WasRead(ValidatedPaths[i]) => ReadOnlyReported(ValidatedPaths[i])

\* a read-only attribute with a set value got the error, both of its
\* validators ran after it, and its deprecation warning came last
C21_Witness ==
    /\ Validated
    /\ vprior = <<>>
    /\ ~vattr.Tfsdk
    /\ vattr.kind = "Leaf"
    /\ Len(vattr.Validators) = 2
    /\ NewDiagnostics = <<ReadOnlyAt(RootPath),
                          Diag("warning", RootPath, "Validator", 1),
                          Diag("error", RootPath, "Validator", 2),
                          DeprecatedAt(RootPath)>>

PositionOf(ev, p) == CHOOSE i \in LogPositions(ev, p) : TRUE

\* The diagnostics appended between the log entries at positions i and j
Between(i, j) ==
    SubSeq(vresp.log[j].diags, Len(vresp.log[i].diags) + 1, Len(vresp.log[j].diags))

\* What one AttributeValidate call, and the nested validation within it,
\* appended
CallDiagnostics(p) ==
    Between(PositionOf("AttributeValidate", p), PositionOf("AttributeValidate returns", p))

NestedDiagnostics(p) ==
    Between(PositionOf("AttributeValidateNestedAttributes", p),
            PositionOf("AttributeValidateNestedAttributes returns", p))

OwnErrors(p) ==
    LET a == AttributeOf(p)
    IN (IF a.Computed /\ ~a.Optional /\ ~ConfigIsNull(p) THEN <<ReadOnlyAt(p)>> ELSE <<>>)
       \o (IF a.Required /\ ConfigIsNull(p) THEN <<MissingRequired(p)>> ELSE <<>>)

\* What the validators of the attribute at p report, in declared order
ValidatorDiagnostics(p) ==
    LET validators == AttributeOf(p).Validators
    IN SelectSeq([i \in 1..Len(validators) |-> Diag(validators[i], p, "Validator", i)],
                 LAMBDA d : d.severity # "none")

DeprecationWarning(p) ==
    IF AttributeOf(p).DeprecationMessage # "" /\ ConfigOf(p).value.st = "known"
    THEN <<DeprecatedAt(p)>>
    ELSE <<>>

\* Diagnostics of nested validation: those of descendants, or the error of
\* the attribute's own value or nesting mode
FromNestedValidation(p, d) ==
    \/ IsStrictPrefix(p, d.path)
    \/ /\ d.path = p
       /\ d.summary \in {"Attribute Validation Error Invalid Value Type",
                         "Value Conversion Error", "Attribute Validation Error"}

\* The validators of the attribute at p were invoked in declared order
ValidatorsInOrder(p) ==
    LET calls == SelectSeq(vresp.log, LAMBDA e : e.ev = "Validate" /\ e.path = p)
    IN \A i \in 1..Len(calls) : calls[i].idx = i

\* C22: what one AttributeValidate call appends is, in this order, the
\* attribute's own read-only and required errors, the diagnostics of its
\* validators in declared order (each validator invoked once), all
\* diagnostics of its nested validation, and last the 'Attribute Deprecated'
\* warning, present only for a non-empty message and a known value.
C22_DiagnosticsInTraversalOrder ==
    Validated =>
        \A i \in 1..Len(ValidatedPaths) :
            LET p == ValidatedPaths[i]
            IN /\ ValidatorsInOrder(p)
               /\ WasRead(p) =>
                      /\ Count("Validate", p) = Len(AttributeOf(p).Validators)
                      /\ CallDiagnostics(p) =
                             OwnErrors(p) \o ValidatorDiagnostics(p)
                                 \o NestedDiagnostics(p) \o DeprecationWarning(p)
                      /\ \A j \in 1..Len(NestedDiagnostics(p)) :
                             FromNestedValidation(p, NestedDiagnostics(p)[j])

\* a validator's warning, then the error of a nested attribute, then the
\* deprecation warning
C22_Witness ==
    /\ Validated
    /\ vprior = <<>>
    /\ NewDiagnostics = <<Diag("warning", RootPath, "Validator", 1),
                          MissingRequired(AtName(RootPath, "a")),
                          DeprecatedAt(RootPath)>>

(***************************************************************************)
(* Path resolution against type derivation, checked under Spec.            *)
(***************************************************************************)
\* The path is the one step AttributeName(n), n a key of Attributes or Blocks
TopLevelName ==
    /\ Len(path) = 1
    /\ path[1].kind = "AttributeName"
    /\ path[1].s \in DOMAIN schema.Attributes \cup DOMAIN schema.Blocks

BothCalled == typeResult # Pending /\ schemaTypeResult # Pending

AgreeAtPath ==
    /\ typeResult.err = NoErr
    /\ typeResult.val = schemaTypeResult.val.attrTypes[path[1].s]

\* C23: for every name n that is a key of the schema's Attributes or Blocks,
\* Schema.TypeAtTerraformPath of the path [AttributeName(n)] is the type of
\* field n in Schema.Type(), also when n is a key of both maps.
C23_TypeAtAgreesWithSchemaType == (BothCalled /\ TopLevelName) => AgreeAtPath

\* the two agree for every name that is a key of one map only
C23_AgreeOnNamesOfOneMap ==
    (/\ BothCalled
     /\ TopLevelName
     /\ path[1].s \notin DOMAIN schema.Attributes \cap DOMAIN schema.Blocks)
    => AgreeAtPath

\* for a name of both maps the path resolves to the attribute's type while
\* Type() holds the block's
C23_DivergenceWitness ==
    /\ BothCalled
    /\ TopLevelName
    /\ path[1].s \in DOMAIN schema.Attributes \cap DOMAIN schema.Blocks
    /\ typeResult.val = AttributeGetType(schema.Attributes[path[1].s])
    /\ schemaTypeResult.val.attrTypes[path[1].s] = BlockType(schema.Blocks[path[1].s])
    /\ typeResult.val # schemaTypeResult.val.attrTypes[path[1].s]

\* a name of Blocks only, on which the two agree
C23_AgreementWitness ==
    /\ BothCalled
    /\ TopLevelName
    /\ path[1].s \in DOMAIN schema.Blocks \ DOMAIN schema.Attributes
    /\ AgreeAtPath

(***************************************************************************)
(* The gate before descent, checked under SpecValidate.                    *)
(***************************************************************************)
\* The accumulator once the value of the attribute at p has been converted
AfterConversion(p) ==
    vresp.log[PositionOf("AttributeValidateNestedAttributes", p)].diags
        \o ToNestedValue(AttributeOf(p), ConfigOf(p).value, p).diags

\* C24: descent into the nested attributes of a List, Set, Map or Single
\* attribute is gated on the whole accumulator: when it holds any error once
\* the value is converted (from the conversion, from the attribute's own
\* checks and validators, or from earlier in the pass),
\* AttributeValidateNestedAttributes returns without validating any nested
\* attribute and appends nothing more; when it holds none, it descends.
C24_DescentGatedOnAccumulator ==
    Validated =>
        \A p \in DescendingPaths :
            AttributeOf(p).Valuable =>
                IF HasError(AfterConversion(p))
                THEN /\ NoneValidatedBelow(p)
                     /\ vresp.log[PositionOf("AttributeValidateNestedAttributes returns", p)].diags
                            = AfterConversion(p)
                ELSE Descended(p)

\* a list with elements, converted without error and with no error of its
\* own, is not descended into because of an error from earlier in the pass
C24_Witness ==
    /\ Validated
    /\ vattr = VList
    /\ HasError(vprior)
    /\ RootPath \in NestedPaths("List")
    /\ Len(Elements(ConfigOf(RootPath).value)) = MaxElems
    /\ ~HasError(NewDiagnostics)
    /\ ChildValidations(RootPath) = <<>>

\* the same list is descended into when the accumulator holds a warning only
C24_WitnessDescent ==
    /\ Validated
    /\ vattr = VList
    /\ vprior # <<>>
    /\ ~HasError(vprior)
    /\ RootPath \in NestedPaths("List")
    /\ Len(ChildValidations(RootPath)) = 2 * MaxElems

====
